---- MODULE Spec2Model ----
(***************************************************************************)
(* Model of the access-serialization scheduler of quickjs_es_runtime       *)
(* (src/src/esruntime.rs), of the cached-handle facades and of the promise *)
(* bridge (src/src/esvalue.rs, src/src/quickjs_utils/promises.rs).         *)
(*                                                                         *)
(* The single threaded event queue (utils::single_threaded_event_queue)    *)
(* and the engine wrapper (quickjsruntime::QuickJsRuntime) are not part of *)
(* the sources at hand; the operators named EQ_* and QJS_* model them from *)
(* the specification text.                                                 *)
(***************************************************************************)
EXTENDS Integers, Sequences, FiniteSets, TLC

\* ------------------------------------------------------------------ bounds
\* number of tasks submitted in one behaviour (host and worker submissions)
MaxTasks == 3
\* number of engine jobs (microtasks) one task closure may leave pending
MaxJobs == 1

\* ------------------------------------------------------------------ universe
HostThreads == {"h1", "h2"}
Worker == "worker"
GcThread == "gc"
Threads == HostThreads \cup {Worker, GcThread}
CtxIds == {"ctx2"}
\* results: a task closure returns a value of its own (tagged with its
\* submission stamp), the context operations return Ok or Err, the rest unit
\* (from: for a facade, the kind of engine value it was converted from)
Unit == [tag |-> "unit", v |-> 0, from |-> "none"]
Val(i) == [tag |-> "val", v |-> i, from |-> "none"]

VARIABLES
    jobs,          \* the event queue's pending list (shared, FIFO)
    local_jobs,    \* the worker's own list, filled by add_task_from_worker
    cur,           \* the job the worker is running
    phase,         \* worker position: "idle", "run" (inside the closure), "send"
    res,           \* the value the running closure returned
    pending_jobs,  \* the engine's pending job queue (microtasks)
    contexts,      \* the engine's context registry and context init hooks
    waiting,       \* per thread: the id of the job whose result it blocks on, or 0
    sent,          \* results published on the oneshot channels
    returned,      \* per thread: what its last blocking call returned
    next_id,       \* submission stamp of the next task
    executed,      \* history: the task closures the worker has entered, in order
    produced,      \* history: the value each task closure produced
    dropped,       \* history: ids of the async tasks whose future was dropped
    inside,        \* history: number of task closures being executed right now
    cache,         \* the cached object table: ids of the retained engine objects
    next_obj,      \* the id the next cache_object call returns
    held,          \* per host thread: the facade it holds
    outcome,       \* per host thread: how its last call on a facade ended
    engine_access, \* history: the threads that have called into the engine
    alive,         \* the runtime is alive: its weak references still upgrade
    fired,         \* history: the host closures the promise reactions invoked
    conv,          \* the last value conversion: operation, input, result
    life,          \* host: the host still holds the runtime; gc: the gc thread
                   \* is in its loop or has left it; last: the thread whose
                   \* drop of the runtime is the final one
    rts            \* several runtimes side by side: their cached object
                   \* tables, the facades they produced, the table lookups

facadeVars == <<cache, next_obj, held, outcome, engine_access, alive, fired, conv, life, rts>>

vars == <<jobs, local_jobs, cur, phase, res, pending_jobs, contexts, waiting,
          sent, returned, next_id, executed, produced, dropped, inside,
          cache, next_obj, held, outcome, engine_access, alive, fired, conv, life, rts>>

NoTask == [id |-> 0, kind |-> "none", owner |-> "none", body |-> "none",
           n |-> 0, val |-> Unit, arg |-> "none", of |-> 0, obj |-> 0,
           argobj |-> 0]

NewTask(kind, owner, body, n, val, arg) ==
    [id |-> next_id, kind |-> kind, owner |-> owner, body |-> body,
     n |-> n, val |-> val, arg |-> arg, of |-> 0, obj |-> 0, argobj |-> 0]

\* the drain job the wrapped closure of task t leaves behind:
\* QuickJsRuntime::do_with(|q_js_rt| q_js_rt.run_pending_jobs_if_any())
DrainTask(t) ==
    [id |-> 0, kind |-> "drain", owner |-> Worker, body |-> "drain",
     n |-> 0, val |-> Unit, arg |-> "none", of |-> t.id, obj |-> 0,
     argobj |-> 0]

\* what a host closure may do: leave n engine jobs pending, submit work from
\* inside the worker (add_to_event_queue_from_worker), or call exe_task again
PlainBodies == {[b |-> "plain", n |-> k, arg |-> "none", obj |-> 0] : k \in 0..MaxJobs}

Bodies ==
    PlainBodies \cup {[b |-> "spawn", n |-> 0, arg |-> "none", obj |-> 0],
                      [b |-> "nested", n |-> 0, arg |-> "none", obj |-> 0]}

\* the job of a blocking call whose closure is body
ExeJob(th, body) ==
    [NewTask("exe_task", th, body.b, body.n, Val(next_id), body.arg)
        EXCEPT !.obj = body.obj]

\* ------------------------------------------------------------------ event queue
\* SingleThreadedEventQueue::add_task: push to the back of the pending list
EQ_add_task(q, t) == Append(q, t)

\* SingleThreadedEventQueue::add_task_from_worker: push to the worker's own list
EQ_add_task_from_worker(q, t) == Append(q, t)

\* ------------------------------------------------------------------ closures
\* The closure each EsRuntimeInner operation hands to the event queue:
\*   task  - it calls the submitted task
\*   drain - where it enqueues the run_pending_jobs_if_any job
\*   res   - it returns the task's result to the queue
\* mutant: the wrapper enqueues the drain but never calls the task
add_task_closure_no_call == [task |-> FALSE, drain |-> "from_worker", res |-> FALSE]

add_task_closure == [task |-> TRUE, drain |-> "from_worker", res |-> FALSE]

\* mutant: the drain is enqueued with add_task instead of add_task_from_worker
exe_task_closure_shared_drain == [task |-> TRUE, drain |-> "shared", res |-> TRUE]

\* mutant: the wrapper returns the drain's unit instead of res
exe_task_closure_no_res == [task |-> TRUE, drain |-> "from_worker", res |-> FALSE]

exe_task_closure == [task |-> TRUE, drain |-> "from_worker", res |-> TRUE]

async_task_closure == [task |-> TRUE, drain |-> "from_worker", res |-> TRUE]

from_worker_closure == [task |-> TRUE, drain |-> "from_worker", res |-> FALSE]

create_context_closure == [task |-> TRUE, drain |-> "none", res |-> TRUE]

drop_context_closure == [task |-> TRUE, drain |-> "none", res |-> TRUE]

drain_closure == [task |-> TRUE, drain |-> "none", res |-> FALSE]

Closure(kind) ==
    CASE kind = "add_task" -> add_task_closure
      [] kind = "exe_task" -> exe_task_closure
      [] kind = "async_task" -> async_task_closure
      [] kind = "from_worker" -> from_worker_closure
      [] kind = "create_context" -> create_context_closure
      [] kind = "drop_context" -> drop_context_closure
      [] OTHER -> drain_closure

\* ------------------------------------------------------------------ engine
OpaqueJob == [fn |-> "opaque", arg |-> Unit]

\* QuickJsRuntime::run_pending_jobs_if_any: runs jobs until none is pending
QJS_run_pending_jobs_if_any(pj) == <<>>

\* the id of the main context, which the engine creates with the runtime
MainCtx == "__main__"

\* a context: its id, the stamp of the task that created it, and the host
\* functions installed in it
NewContext(id, gen, funcs) == [id |-> id, gen |-> gen, funcs |-> funcs]

\* the registry of a new runtime: the main context, no context init hook
NewRegistry == [ctx |-> {NewContext(MainCtx, 0, {})}, hooks |-> {}]

\* the ids of the registered contexts
CtxIdsOf(reg) == {x.id : x \in reg.ctx}

\* mutant: the context is created without looking for the id
QJS_create_context_unchecked(reg, c, gen) ==
    [reg |-> [reg EXCEPT !.ctx = @ \cup {NewContext(c, gen, reg.hooks)}],
     res |-> [tag |-> "Ok", v |-> 0, from |-> "none"]]

\* QuickJsRuntime::create_context: an error when the id is already
\* registered; a new context is initialised by every context init hook
QJS_create_context(reg, c, gen) ==
    IF c \in CtxIdsOf(reg)
    THEN [reg |-> reg, res |-> [tag |-> "Err", v |-> 0, from |-> "none"]]
    ELSE [reg |-> [reg EXCEPT !.ctx = @ \cup {NewContext(c, gen, reg.hooks)}],
          res |-> [tag |-> "Ok", v |-> 0, from |-> "none"]]

\* mutant: the context is kept
QJS_drop_context_keep(reg, c) == [reg |-> reg, res |-> Unit]

\* mutant: the main context is dropped like any other
QJS_drop_context_any(reg, c) ==
    [reg |-> [reg EXCEPT !.ctx = {x \in @ : x.id # c}], res |-> Unit]

\* QuickJsRuntime::drop_context: removes the named context when it is
\* registered; the main context lives as long as the runtime
QJS_drop_context(reg, c) ==
    [reg |-> [reg EXCEPT !.ctx = {x \in @ : x.id # c \/ x.id = MainCtx}],
     res |-> Unit]

\* how a call on a facade ended: the operation, its result, its argument
NoOutcome == [op |-> "none", r |-> "none", arg |-> "none"]

\* the host thread has panicked in a call on a facade
Panicked(th) == outcome[th].r = "panic: i am not a promise"

\* the runtimes a host builds side by side
Runtimes == {"rt1", "rt2"}

\* no table was looked into
NoLookup == [op |-> "none", of |-> "none", at |-> "none", id |-> 0]

\* the runtimes after their construction: empty tables, no facade yet; lookup
\* is the last look into a table, panic the last call that panicked
NoRuntimes ==
    [tables |-> [r \in Runtimes |-> {}], nexts |-> [r \in Runtimes |-> 1],
     facades |-> {}, lookup |-> NoLookup, panic |-> "none"]

\* no conversion has been recorded
NoConv == [op |-> "none"]

\* ------------------------------------------------------------------ Init
Init ==
    /\ jobs = <<>>
    /\ local_jobs = <<>>
    /\ cur = NoTask
    /\ phase = "idle"
    /\ res = Unit
    /\ pending_jobs = <<>>
    /\ contexts = NewRegistry
    /\ waiting = [th \in Threads |-> 0]
    /\ sent = {}
    /\ returned = [th \in Threads |-> [id |-> 0, val |-> Unit]]
    /\ next_id = 1
    /\ executed = <<>>
    /\ produced = {}
    /\ dropped = {}
    /\ inside = 0
    /\ cache = {}
    /\ next_obj = 1
    /\ held = [th \in HostThreads |-> Unit]
    /\ outcome = [th \in HostThreads |-> NoOutcome]
    /\ engine_access = {}
    /\ alive = TRUE
    /\ fired = <<>>
    /\ conv = NoConv
    /\ life = [host |-> TRUE, gc |-> "loop", last |-> "none"]
    /\ rts = NoRuntimes

\* ------------------------------------------------------------------ host side
\* somebody holds a strong reference to the runtime: the host, or the gc
\* thread while it is inside gc_sync
RtHeld == life.host \/ waiting[GcThread] # 0

\* a weak reference to the runtime upgrades
Upgrades == alive /\ RtHeld

\* a host thread is free to submit: it is not blocked in a receive
\* (and it has not panicked)
CanSubmit(th) ==
    /\ th \in HostThreads
    /\ waiting[th] = 0
    /\ ~Panicked(th)
    /\ alive
    /\ life.host
    /\ next_id <= MaxTasks

workerState == <<local_jobs, cur, phase, res, pending_jobs, contexts,
                 executed, produced, inside>>

\* the log entry of a task closure the worker enters
LogEntry(t, src) ==
    [id |-> t.id, kind |-> t.kind, owner |-> t.owner, n |-> t.n, arg |-> t.arg,
     of |-> t.of, src |-> src]

\* mutant: the task is put in front of the pending list
add_task_front(th) ==
    /\ CanSubmit(th)
    /\ \E body \in Bodies :
          jobs' = <<NewTask("add_task", th, body.b, body.n, Unit, "none")>> \o jobs
    /\ next_id' = next_id + 1
    /\ UNCHANGED <<waiting, sent, returned, dropped>>
    /\ UNCHANGED workerState
    /\ UNCHANGED facadeVars

\* EsRuntimeInner::add_task: fire and forget
add_task(th) ==
    /\ CanSubmit(th)
    /\ \E body \in Bodies :
          jobs' = EQ_add_task(jobs,
                     NewTask("add_task", th, body.b, body.n, Unit, "none"))
    /\ next_id' = next_id + 1
    /\ UNCHANGED <<waiting, sent, returned, dropped>>
    /\ UNCHANGED workerState
    /\ UNCHANGED facadeVars

\* mutant: a call made on the worker thread runs the closure in place
exe_task_reentrant(th, body) ==
    /\ waiting[th] = 0
    /\ IF th = Worker
       THEN /\ executed' = Append(executed,
                    LogEntry(ExeJob(th, body), "inline"))
            /\ UNCHANGED <<jobs, waiting>>
       ELSE /\ jobs' = EQ_add_task(jobs, ExeJob(th, body))
            /\ waiting' = [waiting EXCEPT ![th] = next_id]
            /\ UNCHANGED executed
    /\ next_id' = next_id + 1
    /\ UNCHANGED <<produced, inside, sent, returned, dropped>>

\* EsRuntimeInner::exe_task (add_to_event_queue_sync): the closure is queued
\* with a oneshot channel and the calling thread blocks on the receive
exe_task(th, body) ==
    /\ waiting[th] = 0
    /\ jobs' = EQ_add_task(jobs, ExeJob(th, body))
    /\ waiting' = [waiting EXCEPT ![th] = next_id]
    /\ next_id' = next_id + 1
    /\ UNCHANGED <<executed, produced, inside, sent, returned, dropped>>

\* a host thread calls exe_task
HostExeTask(th) ==
    /\ CanSubmit(th)
    /\ \E body \in Bodies : exe_task(th, body)
    /\ UNCHANGED <<local_jobs, cur, phase, res, pending_jobs, contexts>>
    /\ UNCHANGED facadeVars

\* mutant: a lazy future, whose closure is queued only if the future is kept
async_task_lazy(th) ==
    /\ CanSubmit(th)
    /\ \E body \in PlainBodies, fut \in {"held", "dropped"} :
          /\ jobs' = IF fut = "dropped" THEN jobs
                     ELSE EQ_add_task(jobs,
                             NewTask("async_task", th, body.b, body.n,
                                     Val(next_id), fut))
          /\ dropped' = IF fut = "dropped" THEN dropped \cup {next_id} ELSE dropped
    /\ next_id' = next_id + 1
    /\ UNCHANGED <<waiting, sent, returned>>
    /\ UNCHANGED workerState
    /\ UNCHANGED facadeVars

\* EsRuntimeInner::async_task (add_to_event_queue): the closure is queued at
\* once; the caller keeps the future or drops it without polling
async_task(th) ==
    /\ CanSubmit(th)
    /\ \E body \in PlainBodies, fut \in {"held", "dropped"} :
          /\ jobs' = EQ_add_task(jobs,
                        NewTask("async_task", th, body.b, body.n, Val(next_id), fut))
          /\ dropped' = IF fut = "dropped" THEN dropped \cup {next_id} ELSE dropped
    /\ next_id' = next_id + 1
    /\ UNCHANGED <<waiting, sent, returned>>
    /\ UNCHANGED workerState
    /\ UNCHANGED facadeVars

\* mutant: QuickJsRuntime::create_context is called on the calling thread,
\* which is then inside an engine closure of its own
create_context_direct(th, c) ==
    /\ CanSubmit(th)
    /\ contexts' = QJS_create_context(contexts, c, next_id).reg
    /\ inside' = inside + 1
    /\ waiting' = [waiting EXCEPT ![th] = next_id]
    /\ next_id' = next_id + 1
    /\ UNCHANGED <<jobs, local_jobs, cur, phase, res, pending_jobs, executed,
                   produced, sent, returned, dropped>>
    /\ UNCHANGED facadeVars

\* EsRuntimeInner::create_context: event_queue.exe_task without the drain wrapper
create_context(th, c) ==
    /\ CanSubmit(th)
    /\ jobs' = EQ_add_task(jobs,
                  NewTask("create_context", th, "create_context", 0, Unit, c))
    /\ waiting' = [waiting EXCEPT ![th] = next_id]
    /\ next_id' = next_id + 1
    /\ UNCHANGED <<sent, returned, dropped>>
    /\ UNCHANGED workerState
    /\ UNCHANGED facadeVars

\* EsRuntimeInner::drop_context: event_queue.exe_task without the drain wrapper
drop_context(th, c) ==
    /\ CanSubmit(th)
    /\ jobs' = EQ_add_task(jobs,
                  NewTask("drop_context", th, "drop_context", 0, Unit, c))
    /\ waiting' = [waiting EXCEPT ![th] = next_id]
    /\ next_id' = next_id + 1
    /\ UNCHANGED <<sent, returned, dropped>>
    /\ UNCHANGED workerState
    /\ UNCHANGED facadeVars

\* SingleThreadedEventQueue::exe_task, the receive: the blocked caller gets
\* the result the worker sent for its job
ExeReturn(th) ==
    /\ waiting[th] # 0
    /\ \E m \in sent :
          /\ m.id = waiting[th]
          /\ returned' = [returned EXCEPT ![th] = m]
          /\ sent' = sent \ {m}
          /\ held' = IF th \in HostThreads /\ m.val.from # "none" /\ held[th] = Unit
                     THEN [held EXCEPT ![th] = m.val]
                     ELSE held
    /\ waiting' = [waiting EXCEPT ![th] = 0]
    /\ UNCHANGED <<jobs, next_id, dropped>>
    /\ UNCHANGED workerState
    /\ UNCHANGED <<cache, next_obj, outcome, engine_access, alive, fired, conv, life, rts>>

\* ------------------------------------------------------------------ worker
\* the worker loop: its own list first, then the shared pending list
WorkerTake ==
    /\ phase = "idle"
    /\ IF local_jobs # <<>>
       THEN /\ cur' = Head(local_jobs)
            /\ local_jobs' = Tail(local_jobs)
            /\ jobs' = jobs
       ELSE /\ jobs # <<>>
            /\ cur' = Head(jobs)
            /\ jobs' = Tail(jobs)
            /\ local_jobs' = local_jobs
    /\ phase' = "run"
    /\ inside' = inside + 1
    /\ executed' =
          IF Closure(cur'.kind).task
          THEN Append(executed,
                  LogEntry(cur', IF local_jobs # <<>> THEN "local" ELSE "shared"))
          ELSE executed
    /\ UNCHANGED <<res, pending_jobs, contexts, waiting, sent, returned,
                   next_id, produced, dropped>>
    /\ UNCHANGED facadeVars

\* the oneshot channel the queue attaches to exe_task and async_task jobs
HasChannel(kind) ==
    kind \in {"exe_task", "async_task", "create_context", "drop_context"}

\* mutant: the wrapper hands the result over without enqueueing the drain
AfterTaskJ_no_drain(lj, jb, r) ==
    /\ local_jobs' = lj
    /\ jobs' = jb
    /\ res' = IF Closure(cur.kind).res THEN r ELSE Unit
    /\ produced' = IF cur.id # 0 THEN produced \cup {[id |-> cur.id, val |-> r]}
                   ELSE produced
    /\ inside' = inside - 1
    /\ phase' = IF HasChannel(cur.kind) THEN "send" ELSE "idle"

\* the end of a wrapped closure, after task() returned r: the drain job is
\* enqueued where the closure says, and the result is handed to the queue
\* (lj, jb: the worker's list and the shared list as task() left them)
AfterTaskJ(lj, jb, r) ==
    /\ local_jobs' =
          IF Closure(cur.kind).drain = "from_worker"
          THEN EQ_add_task_from_worker(lj, DrainTask(cur))
          ELSE lj
    /\ jobs' =
          IF Closure(cur.kind).drain = "shared"
          THEN EQ_add_task(jb, DrainTask(cur))
          ELSE jb
    /\ res' = IF Closure(cur.kind).res THEN r ELSE Unit
    /\ produced' = IF cur.id # 0 THEN produced \cup {[id |-> cur.id, val |-> r]}
                   ELSE produced
    /\ inside' = inside - 1
    /\ phase' = IF HasChannel(cur.kind) THEN "send" ELSE "idle"

AfterTask(lj, r) == AfterTaskJ(lj, jobs, r)

Running == phase = "run" /\ waiting[Worker] = 0

\* a closure that only works on the engine, leaving cur.n jobs pending
RunPlain ==
    /\ Running
    /\ cur.body \in {"plain", "nested_done"}
    /\ pending_jobs' =
          IF Closure(cur.kind).task
          THEN pending_jobs \o [i \in 1..cur.n |-> OpaqueJob]
          ELSE pending_jobs
    /\ AfterTask(local_jobs, cur.val)
    /\ engine_access' = engine_access \cup {Worker}
    /\ UNCHANGED <<cur, contexts, waiting, sent, returned, next_id, executed,
                   dropped, cache, next_obj, held, outcome, alive, fired, conv, life, rts>>

\* a closure that calls EsRuntimeInner::add_to_event_queue_from_worker
RunSpawn ==
    /\ Running
    /\ cur.body = "spawn"
    /\ AfterTask(
          IF Closure(cur.kind).task
          THEN EQ_add_task_from_worker(local_jobs,
                  NewTask("from_worker", Worker, "plain", 0, Unit, "none"))
          ELSE local_jobs,
          cur.val)
    /\ next_id' = next_id + 1
    /\ UNCHANGED <<cur, pending_jobs, contexts, waiting, sent, returned,
                   executed, dropped>>
    /\ UNCHANGED facadeVars

\* a closure that calls exe_task while it runs on the worker thread
RunNested ==
    /\ Running
    /\ cur.body = "nested"
    /\ exe_task(Worker, [b |-> "plain", n |-> 0, arg |-> "none", obj |-> 0])
    /\ cur' = [cur EXCEPT !.body = "nested_done"]
    /\ UNCHANGED <<local_jobs, phase, res, pending_jobs, contexts>>
    /\ UNCHANGED facadeVars

\* the drain job: QuickJsRuntime::do_with(run_pending_jobs_if_any)
RunDrain ==
    /\ Running
    /\ cur.body = "drain"
    /\ pending_jobs' = QJS_run_pending_jobs_if_any(pending_jobs)
    /\ AfterTask(local_jobs, Unit)
    /\ engine_access' = engine_access \cup {Worker}
    /\ UNCHANGED <<cur, contexts, waiting, sent, returned, next_id, executed,
                   dropped, cache, next_obj, held, outcome, alive, fired, conv, life, rts>>

\* the closure of create_context
RunCreateContext ==
    /\ Running
    /\ cur.body = "create_context"
    /\ contexts' = QJS_create_context(contexts, cur.arg, cur.id).reg
    /\ AfterTask(local_jobs, QJS_create_context(contexts, cur.arg, cur.id).res)
    /\ engine_access' = engine_access \cup {Worker}
    /\ UNCHANGED <<cur, pending_jobs, waiting, sent, returned, next_id,
                   executed, dropped, cache, next_obj, held, outcome, alive, fired, conv, life, rts>>

\* the closure of drop_context
RunDropContext ==
    /\ Running
    /\ cur.body = "drop_context"
    /\ contexts' = QJS_drop_context(contexts, cur.arg).reg
    /\ AfterTask(local_jobs, QJS_drop_context(contexts, cur.arg).res)
    /\ engine_access' = engine_access \cup {Worker}
    /\ UNCHANGED <<cur, pending_jobs, waiting, sent, returned, next_id,
                   executed, dropped, cache, next_obj, held, outcome, alive, fired, conv, life, rts>>

\* the queue's job wrapper sends the closure's result on the oneshot channel;
\* a send to a dropped future fails and is ignored
Finish ==
    /\ phase = "send"
    /\ sent' = IF cur.kind = "async_task" /\ cur.arg = "dropped"
               THEN sent
               ELSE sent \cup {[id |-> cur.id, val |-> res]}
    /\ phase' = "idle"
    /\ UNCHANGED <<jobs, local_jobs, cur, res, pending_jobs, contexts, waiting,
                   returned, next_id, executed, produced, dropped, inside>>
    /\ UNCHANGED facadeVars

Next ==
    \/ \E th \in HostThreads : add_task(th)
    \/ \E th \in HostThreads : HostExeTask(th)
    \/ \E th \in HostThreads : async_task(th)
    \/ \E th \in HostThreads, c \in CtxIds : create_context(th, c)
    \/ \E th \in HostThreads, c \in CtxIds : drop_context(th, c)
    \/ \E th \in Threads : ExeReturn(th)
    \/ WorkerTake
    \/ RunPlain
    \/ RunSpawn
    \/ RunNested
    \/ RunDrain
    \/ RunCreateContext
    \/ RunDropContext
    \/ Finish

Spec == Init /\ [][Next]_vars

\* the worker's steps; the worker thread runs whenever it has a step to take
WorkerStep ==
    \/ WorkerTake
    \/ RunPlain
    \/ RunSpawn
    \/ RunNested
    \/ RunDrain
    \/ RunCreateContext
    \/ RunDropContext
    \/ Finish

FairSpec == Spec /\ WF_vars(WorkerStep)

\* ------------------------------------------------------------------ facades
\* the kinds of value a script evaluates to; the promise kinds are a promise
\* the script has resolved (new Promise((resolve) => resolve(12345))), one it
\* never settles and one it has rejected
PromiseKinds == {"promise", "promise_pending", "promise_rejected"}

ScriptKinds == {"int", "function"} \cup PromiseKinds

\* mutant: the id counter is never advanced
QJS_cache_object_same_id(tbl, nx) ==
    [id |-> 1, table |-> tbl \cup {1}, next |-> nx + 1]

\* QuickJsRuntime::cache_object: the object is retained under a fresh id
QJS_cache_object(tbl, nx) ==
    [id |-> nx, table |-> tbl \cup {nx}, next |-> nx + 1]

\* QuickJsRuntime::consume_cached_obj: the entry is removed
QJS_consume_cached_obj(tbl, id) == tbl \ {id}

\* ------------------------------------------------------------------ values
\* Engine values (JSValueRef).  kind names the tag of the value and, for an
\* object, what the engine's class tests say of it; the payload is in i (a
\* number), s (a string), b (a boolean), items (an array's elements in index
\* order) or props (an object's own properties in insertion order, a
\* sequence of records [key, val]).
JsInt(i) == [kind |-> "int", i |-> i]

JsArray(items) == [kind |-> "array", items |-> items]

JsObject(kind, props) == [kind |-> kind, props |-> props]

\* the tag of an engine value (JSValueRef::get_tag)
JS_TAG(jsv) ==
    IF jsv.kind \in {"null", "undefined", "bool", "int", "float64", "string",
                     "big_int", "symbol"}
    THEN jsv.kind
    ELSE "object"

\* arrays::is_array, functions::is_function, dates::is_date
QJS_is_array(jsv) == jsv.kind = "array"

QJS_is_function(jsv) == jsv.kind = "function"

QJS_is_date(jsv) == jsv.kind = "date"

\* the value a script of the given kind evaluates to
ScriptValue(kind) ==
    CASE kind = "int" -> JsInt(12345)
      [] kind = "function" -> [kind |-> "function"]
      [] kind = "fn_date" ->
            JsArray(<<[kind |-> "function"], [kind |-> "date"]>>)
      [] kind = "fn_fn_bigint" ->
            JsArray(<<[kind |-> "function"], [kind |-> "function"],
                      [kind |-> "big_int"]>>)
      [] kind = "obj_fn_date" ->
            JsObject("object", <<[key |-> "k1", val |-> [kind |-> "function"]],
                                 [key |-> "k2", val |-> [kind |-> "date"]]>>)
      [] OTHER -> JsObject(kind, <<>>)

\* a conversion error (EsError)
EsErr(msg) == [tag |-> "Err", v |-> 0, from |-> "none", msg |-> msg]

\* the result of a conversion into a facade: Ok(facade) or Err, and the
\* cached object table and id counter the conversion leaves
ConvOk(f, tbl, nx) == [ok |-> TRUE, facade |-> f, table |-> tbl, next |-> nx]

ConvErr(msg, tbl, nx) ==
    [ok |-> FALSE, facade |-> EsErr(msg), table |-> tbl, next |-> nx]

RECURSIVE from_jsval(_, _, _)
RECURSIVE from_jsval_array(_, _, _, _, _)
RECURSIVE from_jsval_object(_, _, _, _, _)

\* mutant: an element that fails to convert is left out of the array
from_jsval_array_skip(items, k, acc, tbl, nx) ==
    IF k > Len(items)
    THEN ConvOk([tag |-> "array", v |-> 0, from |-> "array", items |-> acc],
                tbl, nx)
    ELSE LET r == from_jsval(items[k], tbl, nx) IN
         from_jsval_array(items, k + 1,
                          IF r.ok THEN Append(acc, r.facade) ELSE acc,
                          r.table, r.next)

\* EsValueFacade::from_jsval_array: the elements are converted in index
\* order (k is the loop index, acc the vector built so far); the first
\* failing element ends the conversion with its error
from_jsval_array(items, k, acc, tbl, nx) ==
    IF k > Len(items)
    THEN ConvOk([tag |-> "array", v |-> 0, from |-> "array", items |-> acc],
                tbl, nx)
    ELSE LET r == from_jsval(items[k], tbl, nx) IN
         IF r.ok
         THEN from_jsval_array(items, k + 1, Append(acc, r.facade),
                               r.table, r.next)
         ELSE r

\* EsValueFacade::from_jsval_object: traverse_properties converts every own
\* property and collects the results in a map keyed by the property name;
\* the first failing property ends the conversion with its error
from_jsval_object(props, k, acc, tbl, nx) ==
    IF k > Len(props)
    THEN ConvOk([tag |-> "object", v |-> 0, from |-> "object", props |-> acc],
                tbl, nx)
    ELSE LET r == from_jsval(props[k].val, tbl, nx) IN
         IF r.ok
         THEN from_jsval_object(props, k + 1,
                                [key \in DOMAIN acc \cup {props[k].key} |->
                                    IF key = props[k].key THEN r.facade
                                    ELSE acc[key]],
                                r.table, r.next)
         ELSE r

\* EsValueFacade::from_jsval on an engine value, with the cached object table
\* tbl and its id counter nx: a primitive is copied, an array and an object
\* are copied element by element, a function is put in the cached object
\* table; a date and a big integer are refused.  There is no branch for a
\* promise, which is an object that is neither array, function nor date and
\* is copied by from_jsval_object (from: the kind of the value converted)
from_jsval(jsv, tbl, nx) ==
    CASE JS_TAG(jsv) = "string" ->
            ConvOk([tag |-> "string", v |-> 0, from |-> "string", s |-> jsv.s],
                   tbl, nx)
      [] JS_TAG(jsv) = "int" ->
            ConvOk([tag |-> "i32", v |-> jsv.i, from |-> "int"], tbl, nx)
      [] JS_TAG(jsv) = "bool" ->
            ConvOk([tag |-> "bool", v |-> 0, from |-> "bool", b |-> jsv.b],
                   tbl, nx)
      [] JS_TAG(jsv) = "null" ->
            ConvOk([tag |-> "null", v |-> 0, from |-> "null"], tbl, nx)
      [] JS_TAG(jsv) = "undefined" ->
            ConvOk([tag |-> "undefined", v |-> 0, from |-> "undefined"],
                   tbl, nx)
      [] JS_TAG(jsv) = "float64" ->
            ConvOk([tag |-> "f64", v |-> jsv.i, from |-> "float64"], tbl, nx)
      [] JS_TAG(jsv) = "object" ->
            IF QJS_is_array(jsv)
            THEN from_jsval_array(jsv.items, 1, <<>>, tbl, nx)
            ELSE IF QJS_is_function(jsv)
            THEN ConvOk([tag |-> "function",
                         v |-> QJS_cache_object(tbl, nx).id,
                         from |-> "function"],
                        QJS_cache_object(tbl, nx).table,
                        QJS_cache_object(tbl, nx).next)
            ELSE IF QJS_is_date(jsv)
            THEN ConvErr("dates are currently not supported", tbl, nx)
            ELSE LET r == from_jsval_object(jsv.props, 1, <<>>, tbl, nx) IN
                 IF r.ok
                 THEN [r EXCEPT !.facade = [r.facade EXCEPT !.from = jsv.kind]]
                 ELSE r
      [] JS_TAG(jsv) = "big_int" ->
            ConvErr("BigInts are currently not supported", tbl, nx)
      [] OTHER ->
            ConvErr("Unhandled JS_TAG value", tbl, nx)

\* arrays::set_element: the element at index idx (from 0) is set
QJS_set_element(items, idx, jsv) ==
    IF idx < Len(items) THEN [items EXCEPT ![idx + 1] = jsv]
    ELSE Append(items, jsv)

\* objects::set_property: an own property is replaced or added last
QJS_set_property(props, key, jsv) ==
    IF \E k \in 1..Len(props) : props[k].key = key
    THEN [k \in 1..Len(props) |->
             IF props[k].key = key THEN [key |-> key, val |-> jsv]
             ELSE props[k]]
    ELSE Append(props, [key |-> key, val |-> jsv])

\* the property names of the maps, in the two orders a HashMap may iterate
KeyList == <<"k1", "k2">>

Keys == {KeyList[k] : k \in 1..Len(KeyList)}

Orders == {"fwd", "rev"}

\* the keys of a map in the order its iterator yields them
RECURSIVE IterKeys(_, _, _)
IterKeys(dom, ord, k) ==
    IF k > Len(KeyList) THEN <<>>
    ELSE LET key == IF ord = "fwd" THEN KeyList[k]
                    ELSE KeyList[Len(KeyList) + 1 - k]
         IN  (IF key \in dom THEN <<key>> ELSE <<>>)
                \o IterKeys(dom, ord, k + 1)

RECURSIVE to_js_value(_, _)
RECURSIVE vec_to_js_value(_, _, _, _)
RECURSIVE map_to_js_value(_, _, _, _, _)

\* mutant: every element is stored at index 0
vec_to_js_value_index0(items, index, arr, ord) ==
    IF index >= Len(items) THEN JsArray(arr)
    ELSE vec_to_js_value(items, index + 1,
                         QJS_set_element(arr, 0,
                                         to_js_value(items[index + 1], ord)),
                         ord)

\* to_js_value of Vec<EsValueFacade>: an array is created and the items are
\* converted and stored at their index (index is the loop variable, arr the
\* array built so far)
vec_to_js_value(items, index, arr, ord) ==
    IF index >= Len(items) THEN JsArray(arr)
    ELSE vec_to_js_value(items, index + 1,
                         QJS_set_element(arr, index,
                                         to_js_value(items[index + 1], ord)),
                         ord)

\* to_js_value of HashMap<String, EsValueFacade>: an object is created and
\* every entry is converted and set as a property (ks: the keys in the order
\* of the iteration, k the position in it, obj the properties set so far)
map_to_js_value(props, ks, k, obj, ord) ==
    IF k > Len(ks) THEN JsObject("object", obj)
    ELSE map_to_js_value(props, ks, k + 1,
                         QJS_set_property(obj, ks[k],
                                          to_js_value(props[ks[k]], ord)),
                         ord)

\* EsValueFacade::to_js_value: the engine value of a facade (ord: the order
\* in which the maps iterate); a function facade gives the cached function
to_js_value(f, ord) ==
    CASE f.tag = "string" -> [kind |-> "string", s |-> f.s]
      [] f.tag = "i32" -> JsInt(f.v)
      [] f.tag = "bool" -> [kind |-> "bool", b |-> f.b]
      [] f.tag = "f64" -> [kind |-> "float64", i |-> f.v]
      [] f.tag = "null" -> [kind |-> "null"]
      [] f.tag = "undefined" -> [kind |-> "undefined"]
      [] f.tag = "array" -> vec_to_js_value(f.items, 0, <<>>, ord)
      [] f.tag = "object" ->
            map_to_js_value(f.props, IterKeys(DOMAIN f.props, ord, 1), 1,
                            <<>>, ord)
      [] f.tag = "function" -> [kind |-> "function"]

\* the is_* predicates of EsValueConvertible: each is false by default and
\* true in the impl of its variant; no impl overrides is_null or
\* is_undefined
Predicates ==
    {"is_null", "is_undefined", "is_bool", "is_str", "is_i32", "is_f64",
     "is_function", "is_promise", "is_object", "is_array"}

Is(p, f) ==
    CASE p = "is_null" -> FALSE
      [] p = "is_undefined" -> FALSE
      [] p = "is_bool" -> f.tag = "bool"
      [] p = "is_str" -> f.tag = "string"
      [] p = "is_i32" -> f.tag = "i32"
      [] p = "is_f64" -> f.tag = "f64"
      [] p = "is_function" -> f.tag = "function"
      [] p = "is_promise" -> f.tag = "promise"
      [] p = "is_object" -> f.tag = "object"
      [] p = "is_array" -> f.tag = "array"

\* the typed getters of EsValueConvertible: each panics by default and
\* returns the value in the impl of its variant
Getters == {"get_bool", "get_str", "get_i32", "get_f64", "get_object",
            "get_array"}

Get(g, f) ==
    CASE g = "get_bool" /\ f.tag = "bool" -> [r |-> "value", b |-> f.b]
      [] g = "get_str" /\ f.tag = "string" -> [r |-> "value", s |-> f.s]
      [] g = "get_i32" /\ f.tag = "i32" -> [r |-> "value", v |-> f.v]
      [] g = "get_f64" /\ f.tag = "f64" -> [r |-> "value", v |-> f.v]
      [] g = "get_object" /\ f.tag = "object" ->
            [r |-> "value", props |-> f.props]
      [] g = "get_array" /\ f.tag = "array" ->
            [r |-> "value", items |-> f.items]
      [] OTHER -> [r |-> "panic"]

\* the facades the host builds with to_es_value_facade
EsI32(i) == [tag |-> "i32", v |-> i, from |-> "int"]

EsVec(items) == [tag |-> "array", v |-> 0, from |-> "array", items |-> items]

EsMap(props) == [tag |-> "object", v |-> 0, from |-> "object", props |-> props]

\* sequences of at most two elements of S, and maps from keys to S
Lens == {0, 1, 2}

SeqsOf(S) == UNION {[1..n -> S] : n \in Lens}

MapsOf(S) == UNION {[K -> S] : K \in SUBSET Keys}

\* the host's facades of the primitives, and the arrays and maps of them to
\* depth two
PrimFacades ==
    {[tag |-> "null", v |-> 0, from |-> "null"],
     [tag |-> "undefined", v |-> 0, from |-> "undefined"],
     [tag |-> "bool", v |-> 0, from |-> "bool", b |-> TRUE],
     EsI32(12345),
     [tag |-> "string", v |-> 0, from |-> "string", s |-> "abc"]}

Facades1 ==
    PrimFacades \cup {EsVec(q) : q \in SeqsOf(PrimFacades)}
                \cup {EsMap(m) : m \in MapsOf(PrimFacades)}

HostFacades ==
    PrimFacades \cup {EsVec(q) : q \in SeqsOf(Facades1)}
                \cup {EsMap(m) : m \in MapsOf(Facades1)}
                \cup {[tag |-> "f64", v |-> 1, from |-> "float64"]}

\* objects with properties in insertion order: the keys in either order
ObjsOf(S) ==
    {<<>>} \cup
    UNION {{[k \in 1..Len(ks) |-> [key |-> ks[k], val |-> vs[k]]] :
               vs \in [1..Len(ks) -> S]} :
           ks \in {<<"k1">>, <<"k2">>, <<"k1", "k2">>, <<"k2", "k1">>}}

\* the engine values a script may hand to from_jsval: every kind of value,
\* the arrays and objects of them, and the arrays and objects of those
JsPrims ==
    {[kind |-> "null"], [kind |-> "undefined"], [kind |-> "bool", b |-> TRUE],
     JsInt(12345), [kind |-> "float64", i |-> 1],
     [kind |-> "string", s |-> "abc"], [kind |-> "big_int"],
     [kind |-> "symbol"], [kind |-> "date"], [kind |-> "function"],
     JsObject("promise", <<>>)}

NestPrims ==
    {[kind |-> "null"], JsInt(12345), [kind |-> "string", s |-> "abc"],
     [kind |-> "big_int"], [kind |-> "date"], [kind |-> "function"],
     JsObject("promise", <<>>)}

JsValues1 ==
    JsPrims \cup {JsArray(q) : q \in SeqsOf(NestPrims)}
            \cup {JsObject("object", o) : o \in ObjsOf(NestPrims)}

\* the values nested in the outer arrays and objects: the primitives and the
\* arrays and objects of one of them
JsInner ==
    NestPrims \cup {JsArray(<<x>>) : x \in NestPrims}
              \cup {JsObject("object", <<[key |-> "k1", val |-> x]>>) :
                       x \in NestPrims}

JsValues ==
    JsValues1 \cup {JsArray(q) : q \in SeqsOf(JsInner)}
              \cup {JsObject("object", o) : o \in ObjsOf(JsInner)}

\* what a conversion leaves alone
convRest == <<jobs, local_jobs, cur, phase, res, pending_jobs, contexts,
              waiting, sent, returned, next_id, executed, produced, dropped,
              inside, cache, next_obj, held, outcome, engine_access, alive,
              fired, life, rts>>

\* a script value is converted into a facade
ConvFromJs ==
    /\ conv = NoConv
    /\ \E jsv \in JsValues :
          conv' = [op |-> "from_jsval", in |-> jsv,
                   out |-> from_jsval(jsv, cache, next_obj)]
    /\ UNCHANGED convRest

\* a facade built by the host is converted into an engine value and back
ConvRoundTrip ==
    /\ conv = NoConv
    /\ \E f \in HostFacades, ord \in Orders :
          conv' = [op |-> "round_trip", in |-> f, js |-> to_js_value(f, ord),
                   out |-> from_jsval(to_js_value(f, ord), cache, next_obj)]
    /\ UNCHANGED convRest

NextConv ==
    \/ ConvFromJs
    \/ ConvRoundTrip

SpecConv == Init /\ [][NextConv]_vars

\* the scripts whose value is refused after a function in it was converted
FailingScripts == {"fn_date", "fn_fn_bigint", "obj_fn_date"}

RECURSIVE Ascending(_)

\* the ids of a set in ascending order
Ascending(S) ==
    IF S = {} THEN <<>>
    ELSE LET lo == CHOOSE x \in S : \A y \in S : x <= y
         IN <<lo>> \o Ascending(S \ {lo})

\* mutant: the facades built by a conversion that fails are forgotten
unwound_none(r, tbl) == <<>>

\* the cached facades dropped when the conversion r, begun with the table
\* tbl, returns its error: the vector or map built so far goes out of scope
\* and with it the CachedJSFunction values in it, in the order they were made
unwound(r, tbl) ==
    IF r.ok THEN <<>> ELSE Ascending(r.table \ tbl)

\* Drop for CachedJSFunction on the worker thread, once for each id: a
\* consume_cached_obj closure is handed to add_to_event_queue and the future
\* is dropped
drop_tasks(ids) ==
    [k \in 1..Len(ids) |->
        [NewTask("async_task", Worker, "consume", 0, Unit, "dropped")
            EXCEPT !.obj = ids[k], !.id = next_id + k - 1]]

\* the scripts of the evaluations: those of ScriptKinds, one that evaluates
\* to a date and one that throws
EvalScripts == ScriptKinds \cup {"date", "throw"}

\* QuickJsContext::eval: the value of the script or the error it throws
QJS_eval(script) ==
    IF script = "throw"
    THEN [ok |-> FALSE, err |-> EsErr("script failed")]
    ELSE [ok |-> TRUE, val |-> ScriptValue(script)]

\* the closure of EsRuntime::eval_sync: the script is evaluated in the main
\* context and its value converted; an error of the script is passed on
eval_sync_closure(script, tbl, nx) ==
    IF QJS_eval(script).ok
    THEN from_jsval(QJS_eval(script).val, tbl, nx)
    ELSE [ok |-> FALSE, facade |-> QJS_eval(script).err,
          table |-> tbl, next |-> nx]

\* mutant: the value of the script is not converted
eval_closure_unit(script, tbl, nx) ==
    IF QJS_eval(script).ok
    THEN ConvOk(Unit, tbl, nx)
    ELSE [ok |-> FALSE, facade |-> QJS_eval(script).err,
          table |-> tbl, next |-> nx]

\* the closure of EsRuntime::eval: the script is evaluated in the main
\* context and its value converted; an error of the script is passed on
eval_closure(script, tbl, nx) ==
    IF QJS_eval(script).ok
    THEN from_jsval(QJS_eval(script).val, tbl, nx)
    ELSE [ok |-> FALSE, facade |-> QJS_eval(script).err,
          table |-> tbl, next |-> nx]

\* mutant: an error of the script ends the worker thread
RunEval_stops ==
    /\ Running
    /\ cur.body = "eval"
    /\ cache' = eval_sync_closure(cur.arg, cache, next_obj).table
    /\ next_obj' = eval_sync_closure(cur.arg, cache, next_obj).next
    /\ IF eval_sync_closure(cur.arg, cache, next_obj).ok
       THEN AfterTask(local_jobs,
                      eval_sync_closure(cur.arg, cache, next_obj).facade)
       ELSE /\ phase' = "stopped"
            /\ UNCHANGED <<local_jobs, jobs, res, produced, inside>>
    /\ engine_access' = engine_access \cup {Worker}
    /\ UNCHANGED <<cur, pending_jobs, contexts, waiting, sent, returned,
                   next_id, executed, dropped, held, outcome, alive, fired,
                   conv, life, rts>>

\* EsRuntime::eval_sync: the script is evaluated and its value converted in a
\* closure handed to add_to_event_queue_sync
eval_sync(th, k) ==
    /\ CanSubmit(th)
    /\ held[th] = Unit
    /\ exe_task(th, [b |-> "eval", n |-> 0, arg |-> k, obj |-> 0])
    /\ UNCHANGED <<local_jobs, cur, phase, res, pending_jobs, contexts>>
    /\ UNCHANGED facadeVars

\* the closure of eval_sync
RunEval ==
    /\ Running
    /\ cur.body = "eval"
    /\ LET r == eval_sync_closure(cur.arg, cache, next_obj)
           u == unwound(r, cache)
       IN /\ cache' = r.table
          /\ next_obj' = r.next
          /\ AfterTaskJ(local_jobs, jobs \o drop_tasks(u), r.facade)
          /\ next_id' = next_id + Len(u)
          /\ dropped' = dropped \cup {next_id + k - 1 : k \in 1..Len(u)}
    /\ engine_access' = engine_access \cup {Worker}
    /\ UNCHANGED <<cur, pending_jobs, contexts, waiting, sent, returned,
                   executed, held, outcome, alive, fired, conv, life, rts>>

\* EsRuntime::eval: the same closure is handed to add_to_event_queue and the
\* caller awaits the future
eval(th, k) ==
    /\ CanSubmit(th)
    /\ held[th] = Unit
    /\ jobs' = EQ_add_task(jobs,
                  NewTask("async_task", th, "eval_async", 0, Val(next_id), k))
    /\ waiting' = [waiting EXCEPT ![th] = next_id]
    /\ next_id' = next_id + 1
    /\ UNCHANGED <<sent, returned, dropped>>
    /\ UNCHANGED workerState
    /\ UNCHANGED facadeVars

\* the closure of eval
RunEvalAsync ==
    /\ Running
    /\ cur.body = "eval_async"
    /\ LET r == eval_closure(cur.arg, cache, next_obj)
           u == unwound(r, cache)
       IN /\ cache' = r.table
          /\ next_obj' = r.next
          /\ AfterTaskJ(local_jobs, jobs \o drop_tasks(u), r.facade)
          /\ next_id' = next_id + Len(u)
          /\ dropped' = dropped \cup {next_id + k - 1 : k \in 1..Len(u)}
    /\ engine_access' = engine_access \cup {Worker}
    /\ UNCHANGED <<cur, pending_jobs, contexts, waiting, sent, returned,
                   executed, held, outcome, alive, fired, conv, life, rts>>

NextEval ==
    \/ \E th \in HostThreads, k \in EvalScripts : eval_sync(th, k)
    \/ \E th \in HostThreads, k \in EvalScripts : eval(th, k)
    \/ \E th \in Threads : ExeReturn(th)
    \/ WorkerTake
    \/ RunEval
    \/ RunEvalAsync
    \/ RunDrain
    \/ Finish

SpecEval == Init /\ [][NextEval]_vars

\* a host thread that may call a method of the function facade it holds
CanInvoke(th) ==
    /\ th \in HostThreads
    /\ waiting[th] = 0
    /\ ~Panicked(th)
    /\ held[th].tag = "function"

\* mutant: the call is submitted without looking at the weak reference
invoke_function_sync_unchecked(th) ==
    /\ CanInvoke(th)
    /\ next_id <= MaxTasks
    /\ exe_task(th, [b |-> "invoke", n |-> 0, arg |-> "none", obj |-> held[th].v])
    /\ UNCHANGED <<local_jobs, cur, phase, res, pending_jobs, contexts>>
    /\ UNCHANGED facadeVars

\* CachedJSFunction::invoke_function_sync: when the weak reference upgrades
\* the call is made in a closure handed to add_to_event_queue_sync, otherwise
\* the result is the error "rt was dropped"
invoke_function_sync(th) ==
    /\ CanInvoke(th)
    /\ IF Upgrades
       THEN /\ next_id <= MaxTasks
            /\ exe_task(th, [b |-> "invoke", n |-> 0, arg |-> "none",
                             obj |-> held[th].v])
            /\ UNCHANGED outcome
       ELSE /\ outcome' = [outcome EXCEPT ![th] =
                              [op |-> "invoke_function_sync",
                               r |-> "Err: rt was dropped", arg |-> "none"]]
            /\ UNCHANGED <<jobs, waiting, next_id, executed, produced, inside,
                           sent, returned, dropped>>
    /\ UNCHANGED <<local_jobs, cur, phase, res, pending_jobs, contexts>>
    /\ UNCHANGED <<cache, next_obj, held, engine_access, alive, fired, conv, life, rts>>

\* the argument lists of invoke_function: none (0), or the function facade
\* another host thread hands over (facades are Send), which moves into the call
ArgChoices(th) ==
    {0} \cup {held[t].v : t \in {u \in HostThreads \ {th} :
                                    /\ held[u].tag = "function"
                                    /\ waiting[u] = 0
                                    /\ ~Panicked(u)}}

\* CachedJSFunction::invoke_function: when the weak reference upgrades the
\* call is made in a closure handed to add_to_event_queue, whose future is
\* dropped, and the result is Ok(()); otherwise it is the error "rt was dropped"
invoke_function(th) ==
    /\ CanInvoke(th)
    /\ IF Upgrades
       THEN /\ next_id <= MaxTasks
            /\ \E g \in ArgChoices(th) :
                  /\ jobs' = EQ_add_task(jobs,
                                [NewTask("async_task", th, "invoke", 0, Unit,
                                         "dropped")
                                    EXCEPT !.obj = held[th].v, !.argobj = g])
                  /\ held' = [t \in HostThreads |->
                                IF g # 0 /\ held[t].tag = "function"
                                         /\ held[t].v = g
                                THEN Unit
                                ELSE held[t]]
            /\ dropped' = dropped \cup {next_id}
            /\ next_id' = next_id + 1
            /\ outcome' = [outcome EXCEPT ![th] =
                              [op |-> "invoke_function", r |-> "Ok(())",
                               arg |-> "none"]]
       ELSE /\ outcome' = [outcome EXCEPT ![th] =
                              [op |-> "invoke_function",
                               r |-> "Err: rt was dropped", arg |-> "none"]]
            /\ UNCHANGED <<jobs, dropped, next_id, held>>
    /\ UNCHANGED <<waiting, sent, returned, cache, next_obj,
                   engine_access, alive, fired, conv, life, rts>>
    /\ UNCHANGED workerState

\* the closure of invoke_function_sync and invoke_function: with_cached_obj
\* looks the function up (an id that is not in the table stops the worker),
\* to_js_value looks the argument up; the function returns a number, which
\* invoke_function_sync converts with from_jsval and invoke_function only
\* logs. The argument facade is dropped inside the closure: its drop handler
\* hands the cleanup to add_to_event_queue from the worker thread
RunInvoke ==
    /\ Running
    /\ cur.body = "invoke"
    /\ cur.obj \in cache
    /\ cur.argobj # 0 => cur.argobj \in cache
    /\ AfterTaskJ(local_jobs,
                  IF cur.argobj # 0
                  THEN EQ_add_task(jobs,
                          [NewTask("async_task", Worker, "consume", 0, Unit,
                                   "dropped")
                              EXCEPT !.obj = cur.argobj])
                  ELSE jobs,
                  IF cur.kind = "exe_task"
                  THEN from_jsval(ScriptValue("int"), cache, next_obj).facade
                  ELSE Unit)
    /\ dropped' = IF cur.argobj # 0 THEN dropped \cup {next_id} ELSE dropped
    /\ next_id' = IF cur.argobj # 0 THEN next_id + 1 ELSE next_id
    /\ engine_access' = engine_access \cup {Worker}
    /\ UNCHANGED <<cur, pending_jobs, contexts, waiting, sent, returned,
                   executed, cache, next_obj, held, outcome, alive, fired,
                   conv, life, rts>>

\* mutant: the drop handler removes the table entry on the dropping thread
DropFacade_direct(th) ==
    /\ th \in HostThreads
    /\ waiting[th] = 0
    /\ ~Panicked(th)
    /\ held[th] # Unit
    /\ held' = [held EXCEPT ![th] = Unit]
    /\ IF held[th].tag = "function"
       THEN /\ cache' = cache \ {held[th].v}
            /\ engine_access' = engine_access \cup {th}
       ELSE UNCHANGED <<cache, engine_access>>
    /\ UNCHANGED <<jobs, dropped, next_id, waiting, sent, returned, next_obj,
                   outcome, alive, fired, conv, life, rts>>
    /\ UNCHANGED workerState

\* mutant: the drop handler submits the cleanup without looking at the weak
\* reference
DropFacade_unchecked(th) ==
    /\ th \in HostThreads
    /\ waiting[th] = 0
    /\ ~Panicked(th)
    /\ held[th] # Unit
    /\ held' = [held EXCEPT ![th] = Unit]
    /\ IF held[th].tag = "function"
       THEN /\ jobs' = EQ_add_task(jobs,
                          [NewTask("async_task", th, "consume", 0, Unit, "dropped")
                              EXCEPT !.obj = held[th].v])
            /\ dropped' = dropped \cup {next_id}
            /\ next_id' = next_id + 1
       ELSE UNCHANGED <<jobs, dropped, next_id>>
    /\ UNCHANGED <<waiting, sent, returned, cache, next_obj, outcome,
                   engine_access, alive, fired, conv, life, rts>>
    /\ UNCHANGED workerState

\* mutant: the cleanup is put in front of the tasks already queued
DropFacade_front(th) ==
    /\ th \in HostThreads
    /\ waiting[th] = 0
    /\ ~Panicked(th)
    /\ held[th] # Unit
    /\ held' = [held EXCEPT ![th] = Unit]
    /\ IF held[th].tag = "function" /\ Upgrades
       THEN /\ jobs' = <<[NewTask("async_task", th, "consume", 0, Unit, "dropped")
                              EXCEPT !.obj = held[th].v]>> \o jobs
            /\ dropped' = dropped \cup {next_id}
            /\ next_id' = next_id + 1
       ELSE UNCHANGED <<jobs, dropped, next_id>>
    /\ UNCHANGED <<waiting, sent, returned, cache, next_obj, outcome,
                   engine_access, alive, fired, conv, life, rts>>
    /\ UNCHANGED workerState

\* a host thread drops the facade it holds. Drop for CachedJSFunction: when
\* the weak reference upgrades, a consume_cached_obj closure is handed to
\* add_to_event_queue and the future is dropped; the other facades own no
\* engine object
DropFacade(th) ==
    /\ th \in HostThreads
    /\ waiting[th] = 0
    /\ ~Panicked(th)
    /\ held[th] # Unit
    /\ held' = [held EXCEPT ![th] = Unit]
    /\ IF held[th].tag = "function" /\ Upgrades
       THEN /\ jobs' = EQ_add_task(jobs,
                          [NewTask("async_task", th, "consume", 0, Unit, "dropped")
                              EXCEPT !.obj = held[th].v])
            /\ dropped' = dropped \cup {next_id}
            /\ next_id' = next_id + 1
       ELSE UNCHANGED <<jobs, dropped, next_id>>
    /\ UNCHANGED <<waiting, sent, returned, cache, next_obj, outcome,
                   engine_access, alive, fired, conv, life, rts>>
    /\ UNCHANGED workerState

\* the closure of the drop handler: consume_cached_obj
RunConsume ==
    /\ Running
    /\ cur.body = "consume"
    /\ cache' = QJS_consume_cached_obj(cache, cur.obj)
    /\ AfterTask(local_jobs, Unit)
    /\ engine_access' = engine_access \cup {Worker}
    /\ UNCHANGED <<cur, pending_jobs, contexts, waiting, sent, returned,
                   next_id, executed, dropped, next_obj, held, outcome, alive,
                   fired, conv, life, rts>>

\* mutant: the gc thread keeps the upgraded reference between its iterations
gc_wakeup_strong == FALSE

\* a wake-up of the gc interval thread at which e_ref.upgrade() is None
gc_wakeup_fails == ~RtHeld

\* the gc interval thread: it upgrades its weak reference and calls gc_sync,
\* which hands the collection to add_to_event_queue_sync
gc_interval ==
    /\ alive
    /\ life.gc = "loop"
    /\ waiting[GcThread] = 0
    /\ ~gc_wakeup_fails
    /\ next_id <= MaxTasks
    /\ exe_task(GcThread, [b |-> "gc", n |-> 0, arg |-> "none", obj |-> 0])
    /\ UNCHANGED <<local_jobs, cur, phase, res, pending_jobs, contexts>>
    /\ UNCHANGED facadeVars

\* the closure of gc_sync: q_js_rt.gc()
RunGc ==
    /\ Running
    /\ cur.body = "gc"
    /\ AfterTask(local_jobs, Unit)
    /\ engine_access' = engine_access \cup {Worker}
    /\ UNCHANGED <<cur, pending_jobs, contexts, waiting, sent, returned,
                   next_id, executed, dropped, cache, next_obj, held, outcome,
                   alive, fired, conv, life, rts>>

\* EsValueConvertible::await_promise_blocking of the facade f: only
\* CachedJSPromise overrides the default, which panics
await_dispatch(f) ==
    IF f.tag = "promise" THEN "cached_promise" ELSE "panic: i am not a promise"

\* EsValueFacade::await_promise_blocking on the facade a host thread got for
\* a promise: it calls the convertible's method
await_promise_blocking(th) ==
    /\ th \in HostThreads
    /\ waiting[th] = 0
    /\ ~Panicked(th)
    /\ alive
    /\ held[th].from \in PromiseKinds
    /\ outcome' = [outcome EXCEPT ![th] =
                      [op |-> "await_promise_blocking",
                       r |-> await_dispatch(held[th]), arg |-> "none"]]
    /\ UNCHANGED <<jobs, waiting, sent, returned, next_id, dropped, cache,
                   next_obj, held, engine_access, alive, fired, conv, life, rts>>
    /\ UNCHANGED workerState

\* the closures a caller of add_promise_reactions supplies: one reaction, or
\* a then closure that returns an error
ReactionArgs == {"then", "catch", "finally", "then_err"}

\* EsValueConvertible::add_promise_reactions of the facade f: only
\* CachedJSPromise overrides the default, which panics
reactions_dispatch(f) ==
    IF f.tag = "promise" THEN "cached_promise" ELSE "panic: i am not a promise"

\* add_promise_reactions on the facade a host thread got for a promise
add_promise_reactions(th) ==
    /\ th \in HostThreads
    /\ waiting[th] = 0
    /\ ~Panicked(th)
    /\ alive
    /\ held[th].from \in PromiseKinds
    /\ \E a \in ReactionArgs :
          outcome' = [outcome EXCEPT ![th] =
                         [op |-> "add_promise_reactions",
                          r |-> reactions_dispatch(held[th]), arg |-> a]]
    /\ UNCHANGED <<jobs, waiting, sent, returned, next_id, dropped, cache,
                   next_obj, held, engine_access, alive, fired, conv, life, rts>>
    /\ UNCHANGED workerState

\* the reference to the runtime a cached facade keeps (es_rt_inner of
\* CachedJSFunction and CachedJSPromise, made by Arc::downgrade)
facade_rt_ref == "weak"

\* the reference to the runtime the function installed by
\* CachedJSPromise::await_promise_blocking captures (rti_ref, a clone of the
\* runtime's Arc moved into promise_block_result_transmitter)
transmitter_rt_ref == "strong"

\* the reference to the runtime the then and catch wrappers installed by
\* CachedJSPromise::add_promise_reactions capture (rti_ref, a clone of the
\* runtime's Arc)
reaction_rt_ref == "strong"

\* the host threads whose facade keeps the runtime alive
StrongHolders ==
    {th \in HostThreads : held[th].tag = "function" /\ facade_rt_ref = "strong"}

\* mutant: the queue outlives the runtime, its tasks are kept
Teardown_keep ==
    /\ alive
    /\ phase = "idle"
    /\ \A th \in Threads : waiting[th] = 0
    /\ alive' = FALSE
    /\ life' = [life EXCEPT !.host = FALSE,
                             !.last = IF life.host THEN "host" ELSE @]
    /\ UNCHANGED <<jobs, local_jobs, cur, phase, res, pending_jobs, contexts,
                   waiting, sent, returned, next_id, executed, produced,
                   dropped, inside, cache, next_obj, held, outcome,
                   engine_access, fired, conv, rts>>

\* the last reference to the runtime is dropped (nothing else holds a strong
\* one) while no caller is inside a blocking call: the queue is torn down, the tasks still queued are
\* abandoned, the engine and its table are released together
Teardown ==
    /\ alive
    /\ StrongHolders = {}
    /\ phase = "idle"
    /\ \A th \in Threads : waiting[th] = 0
    /\ alive' = FALSE
    /\ jobs' = <<>>
    /\ local_jobs' = <<>>
    /\ pending_jobs' = <<>>
    /\ contexts' = [ctx |-> {}, hooks |-> {}]
    /\ cache' = {}
    /\ life' = [life EXCEPT !.host = FALSE,
                             !.last = IF life.host THEN "host" ELSE @]
    /\ UNCHANGED <<cur, phase, res, waiting, sent, returned, next_id, executed,
                   produced, dropped, inside, next_obj, held, outcome,
                   engine_access, fired, conv, rts>>

NextFacade ==
    \/ \E th \in HostThreads, k \in ScriptKinds : eval_sync(th, k)
    \/ \E th \in HostThreads : invoke_function_sync(th)
    \/ \E th \in HostThreads : invoke_function(th)
    \/ \E th \in HostThreads : DropFacade(th)
    \/ \E th \in HostThreads : await_promise_blocking(th)
    \/ \E th \in HostThreads : add_promise_reactions(th)
    \/ gc_interval
    \/ Teardown
    \/ \E th \in Threads : ExeReturn(th)
    \/ WorkerTake
    \/ RunEval
    \/ RunInvoke
    \/ RunConsume
    \/ RunGc
    \/ RunDrain
    \/ Finish

SpecFacade == Init /\ [][NextFacade]_vars

\* the worker's steps on the tasks of the facades
WorkerStepFacade ==
    \/ WorkerTake
    \/ RunEval
    \/ RunInvoke
    \/ RunConsume
    \/ RunGc
    \/ RunDrain
    \/ Finish

FairSpecFacade == SpecFacade /\ WF_vars(WorkerStepFacade)

\* ------------------------------------------------------------ runtime's life
\* the host drops its reference to the runtime (drop(rt)); no host thread is
\* inside a call, which borrows the runtime. The runtime lives on while the gc
\* thread holds its upgraded reference
HostDrop ==
    /\ alive
    /\ life.host
    /\ \A th \in HostThreads : waiting[th] = 0
    /\ life' = [life EXCEPT !.host = FALSE,
                             !.last = IF waiting[GcThread] # 0 THEN "gc"
                                      ELSE "host"]
    /\ UNCHANGED <<jobs, local_jobs, cur, phase, res, pending_jobs, contexts,
                   waiting, sent, returned, next_id, executed, produced,
                   dropped, inside, cache, next_obj, held, outcome,
                   engine_access, alive, fired, conv, rts>>

\* the gc interval thread leaves its loop: break
GcExit ==
    /\ life.gc = "loop"
    /\ waiting[GcThread] = 0
    /\ gc_wakeup_fails
    /\ life' = [life EXCEPT !.gc = "exited"]
    /\ UNCHANGED <<jobs, local_jobs, cur, phase, res, pending_jobs, contexts,
                   waiting, sent, returned, next_id, executed, produced,
                   dropped, inside, cache, next_obj, held, outcome,
                   engine_access, alive, fired, conv, rts>>

NextLife ==
    \/ \E th \in HostThreads : async_task(th)
    \/ \E th \in HostThreads, k \in {"int", "function"} : eval_sync(th, k)
    \/ \E th \in HostThreads : DropFacade(th)
    \/ gc_interval
    \/ GcExit
    \/ HostDrop
    \/ Teardown
    \/ \E th \in Threads : ExeReturn(th)
    \/ WorkerTake
    \/ RunPlain
    \/ RunEval
    \/ RunConsume
    \/ RunGc
    \/ RunDrain
    \/ Finish

SpecLife == Init /\ [][NextLife]_vars

\* the worker's steps on the tasks of SpecLife
WorkerStepLife ==
    \/ WorkerTake
    \/ RunPlain
    \/ RunEval
    \/ RunConsume
    \/ RunGc
    \/ RunDrain
    \/ Finish

\* every thread runs: the worker, a caller whose result was sent, the gc
\* thread's wake-ups, and the destructor of the runtime
FairSpecLife ==
    /\ SpecLife
    /\ WF_vars(WorkerStepLife)
    /\ WF_vars(\E th \in Threads : ExeReturn(th))
    /\ WF_vars(GcExit)
    /\ WF_vars(Teardown)

\* ------------------------------------------------------------ function calls
\* the strings the engine refuses to create (primitives::from_string fails)
BadStrings == {"bad1", "bad2"}

EsString(str) == [tag |-> "string", v |-> 0, from |-> "string", s |-> str]

\* the arguments of the calls: two numbers and two strings that do not convert
ArgFacades == {EsI32(7), EsI32(5), EsString("bad1"), EsString("bad2")}

\* the argument lists of the calls
CallArgs == SeqsOf(ArgFacades)

\* the conversion of an argument into an engine value: that of a string is
\* the engine's from_string, which can fail
as_js_value(f) ==
    IF f.tag = "string" /\ f.s \in BadStrings
    THEN [ok |-> FALSE, err |-> EsErr(f.s)]
    ELSE [ok |-> TRUE, val |-> to_js_value(f, "fwd")]

\* the script function of the calls: function(a, b) {return a * b;}, with
\* the engine's arithmetic on missing arguments left out (the result is 0)
QJS_call_function(q_args) ==
    IF Len(q_args) = 2 /\ q_args[1].kind = "int" /\ q_args[2].kind = "int"
    THEN JsInt(q_args[1].i * q_args[2].i)
    ELSE JsInt(0)

RECURSIVE convert_args(_, _, _)
RECURSIVE convert_args_skip(_, _, _)

\* for arg in arguments { match arg.as_js_value(q_ctx) { Ok(js_arg) =>
\* q_args.push(js_arg), Err(err) => log::error!(..) } }
convert_args_skip(args, k, q_args) ==
    IF k > Len(args) THEN [ok |-> TRUE, q_args |-> q_args]
    ELSE IF as_js_value(args[k]).ok
         THEN convert_args_skip(args, k + 1,
                                Append(q_args, as_js_value(args[k]).val))
         ELSE convert_args_skip(args, k + 1, q_args)

\* for arg in arguments { q_args.push(arg.as_js_value(q_ctx)?); }
convert_args(args, k, q_args) ==
    IF k > Len(args) THEN [ok |-> TRUE, q_args |-> q_args]
    ELSE IF as_js_value(args[k]).ok
         THEN convert_args(args, k + 1, Append(q_args, as_js_value(args[k]).val))
         ELSE [ok |-> FALSE, err |-> as_js_value(args[k]).err]

\* the closure of EsRuntime::call_function_sync: called is the list of the
\* argument lists the function was invoked with, res the closure's result
call_function_sync_closure(args, tbl, nx) ==
    IF convert_args(args, 1, <<>>).ok
    THEN [called |-> <<convert_args(args, 1, <<>>).q_args>>,
          res |-> from_jsval(QJS_call_function(convert_args(args, 1, <<>>).q_args),
                             tbl, nx).facade]
    ELSE [called |-> <<>>, res |-> convert_args(args, 1, <<>>).err]

\* the closure of CachedJSFunction::invoke_function_sync
invoke_function_sync_closure(args, tbl, nx) ==
    IF convert_args(args, 1, <<>>).ok
    THEN [called |-> <<convert_args(args, 1, <<>>).q_args>>,
          res |-> from_jsval(QJS_call_function(convert_args(args, 1, <<>>).q_args),
                             tbl, nx).facade]
    ELSE [called |-> <<>>, res |-> convert_args(args, 1, <<>>).err]

\* the closure of the asynchronous EsRuntime::call_function
call_function_closure(args, tbl, nx) ==
    [called |-> <<convert_args_skip(args, 1, <<>>).q_args>>,
     res |-> from_jsval(QJS_call_function(convert_args_skip(args, 1, <<>>).q_args),
                        tbl, nx).facade]

\* a call that was submitted and whose closure has not run
NewCall(op, args) ==
    [op |-> op, in |-> args, id |-> next_id, called |-> <<>>, done |-> FALSE]

\* EsRuntime::call_function_sync
call_function_sync(th, args) ==
    /\ CanSubmit(th)
    /\ conv = NoConv
    /\ exe_task(th, [b |-> "call_function_sync", n |-> 0, arg |-> "none",
                     obj |-> 0])
    /\ conv' = NewCall("call_function_sync", args)
    /\ UNCHANGED <<local_jobs, cur, phase, res, pending_jobs, contexts>>
    /\ UNCHANGED <<cache, next_obj, held, outcome, engine_access, alive,
                   fired, life, rts>>

\* EsRuntime::call_function: the closure is handed to add_to_event_queue and
\* the caller awaits the future
call_function(th, args) ==
    /\ CanSubmit(th)
    /\ conv = NoConv
    /\ jobs' = EQ_add_task(jobs,
                  NewTask("async_task", th, "call_function", 0, Val(next_id),
                          "awaited"))
    /\ waiting' = [waiting EXCEPT ![th] = next_id]
    /\ next_id' = next_id + 1
    /\ conv' = NewCall("call_function", args)
    /\ UNCHANGED <<sent, returned, dropped>>
    /\ UNCHANGED workerState
    /\ UNCHANGED <<cache, next_obj, held, outcome, engine_access, alive,
                   fired, life, rts>>

\* CachedJSFunction::invoke_function_sync with arguments
invoke_function_sync_args(th, args) ==
    /\ CanInvoke(th)
    /\ Upgrades
    /\ next_id <= MaxTasks
    /\ conv = NoConv
    /\ exe_task(th, [b |-> "invoke_function_sync", n |-> 0, arg |-> "none",
                     obj |-> held[th].v])
    /\ conv' = NewCall("invoke_function_sync", args)
    /\ UNCHANGED <<local_jobs, cur, phase, res, pending_jobs, contexts>>
    /\ UNCHANGED <<cache, next_obj, held, outcome, engine_access, alive,
                   fired, life, rts>>

\* the closure of the call the worker is running
CallClosure(op, args, tbl, nx) ==
    CASE op = "call_function_sync" -> call_function_sync_closure(args, tbl, nx)
      [] op = "call_function" -> call_function_closure(args, tbl, nx)
      [] op = "invoke_function_sync" ->
            invoke_function_sync_closure(args, tbl, nx)

\* the worker runs the closure of a call
RunCallFunction ==
    /\ Running
    /\ cur.body \in {"call_function_sync", "call_function",
                      "invoke_function_sync"}
    /\ cur.body = "invoke_function_sync" => cur.obj \in cache
    /\ conv' = [conv EXCEPT
                   !.called = CallClosure(cur.body, conv.in, cache, next_obj).called,
                   !.done = TRUE]
    /\ AfterTask(local_jobs, CallClosure(cur.body, conv.in, cache, next_obj).res)
    /\ engine_access' = engine_access \cup {Worker}
    /\ UNCHANGED <<cur, pending_jobs, contexts, waiting, sent, returned,
                   next_id, executed, dropped, cache, next_obj, held, outcome,
                   alive, fired, life, rts>>

\* QuickJsContext::eval_module: the value of the module or the error of its
\* compilation or evaluation
QJS_eval_module(script) ==
    IF script = "module_throw"
    THEN [ok |-> FALSE, err |-> EsErr("module failed")]
    ELSE [ok |-> TRUE, val |-> ScriptValue("int")]

\* the modules of the evaluations: one that evaluates to a number and one
\* that throws or does not compile
ModuleScripts == {"module_int", "module_throw"}

\* the closure of EsRuntime::eval_module_sync
eval_module_sync_closure(script, tbl, nx) ==
    IF QJS_eval_module(script).ok
    THEN from_jsval(QJS_eval_module(script).val, tbl, nx)
    ELSE [ok |-> FALSE, facade |-> QJS_eval_module(script).err,
          table |-> tbl, next |-> nx]

\* EsRuntime::eval_module_sync
eval_module_sync(th, k) ==
    /\ CanSubmit(th)
    /\ held[th] = Unit
    /\ exe_task(th, [b |-> "eval_module", n |-> 0, arg |-> k, obj |-> 0])
    /\ UNCHANGED <<local_jobs, cur, phase, res, pending_jobs, contexts>>
    /\ UNCHANGED facadeVars

\* the closure of eval_module_sync
RunEvalModule ==
    /\ Running
    /\ cur.body = "eval_module"
    /\ cache' = eval_module_sync_closure(cur.arg, cache, next_obj).table
    /\ next_obj' = eval_module_sync_closure(cur.arg, cache, next_obj).next
    /\ AfterTask(local_jobs,
                 eval_module_sync_closure(cur.arg, cache, next_obj).facade)
    /\ engine_access' = engine_access \cup {Worker}
    /\ UNCHANGED <<cur, pending_jobs, contexts, waiting, sent, returned,
                   next_id, executed, dropped, held, outcome, alive, fired,
                   conv, life, rts>>

NextCall ==
    \/ \E th \in HostThreads, args \in CallArgs : call_function_sync(th, args)
    \/ \E th \in HostThreads, args \in CallArgs : call_function(th, args)
    \/ \E th \in HostThreads, args \in CallArgs :
          invoke_function_sync_args(th, args)
    \/ \E th \in HostThreads, k \in {"int", "function", "throw"} :
          eval_sync(th, k)
    \/ \E th \in HostThreads, k \in ModuleScripts : eval_module_sync(th, k)
    \/ \E th \in Threads : ExeReturn(th)
    \/ WorkerTake
    \/ RunCallFunction
    \/ RunEval
    \/ RunEvalModule
    \/ RunDrain
    \/ Finish

SpecCall == Init /\ [][NextCall]_vars

\* ------------------------------------------------------------ failing scripts
\* the closure of the asynchronous EsRuntime::eval_module: an error is
\* logged and the closure returns ()
eval_module_closure(script) ==
    [res |-> Unit,
     log |-> IF QJS_eval_module(script).ok THEN "none"
             ELSE "error in async eval"]

\* EsRuntime::eval_module: the closure is handed to add_to_event_queue and
\* the caller awaits the future
eval_module(th, k) ==
    /\ CanSubmit(th)
    /\ held[th] = Unit
    /\ jobs' = EQ_add_task(jobs,
                  NewTask("async_task", th, "eval_module_async", 0,
                          Val(next_id), k))
    /\ waiting' = [waiting EXCEPT ![th] = next_id]
    /\ next_id' = next_id + 1
    /\ UNCHANGED <<sent, returned, dropped>>
    /\ UNCHANGED workerState
    /\ UNCHANGED facadeVars

\* the closure of eval_module
RunEvalModuleAsync ==
    /\ Running
    /\ cur.body = "eval_module_async"
    /\ AfterTask(local_jobs, eval_module_closure(cur.arg).res)
    /\ engine_access' = engine_access \cup {Worker}
    /\ UNCHANGED <<cur, pending_jobs, contexts, waiting, sent, returned,
                   next_id, executed, dropped, cache, next_obj, held, outcome,
                   alive, fired, conv, life, rts>>

NextFail ==
    \/ \E th \in HostThreads, k \in {"int", "throw"} : eval_sync(th, k)
    \/ \E th \in HostThreads, k \in {"int", "throw"} : eval(th, k)
    \/ \E th \in HostThreads, k \in ModuleScripts : eval_module(th, k)
    \/ \E th \in HostThreads, k \in ModuleScripts : eval_module_sync(th, k)
    \/ \E th \in Threads : ExeReturn(th)
    \/ WorkerTake
    \/ RunEval
    \/ RunEvalAsync
    \/ RunEvalModule
    \/ RunEvalModuleAsync
    \/ RunDrain
    \/ Finish

SpecFail == Init /\ [][NextFail]_vars

\* the worker's steps on the evaluations
WorkerStepFail ==
    \/ WorkerTake
    \/ RunEval
    \/ RunEvalAsync
    \/ RunEvalModule
    \/ RunEvalModuleAsync
    \/ RunDrain
    \/ Finish

FairSpecFail == SpecFail /\ WF_vars(WorkerStepFail)

\* ------------------------------------------------------ failed conversions
NextUnwind ==
    \/ \E th \in HostThreads, k \in FailingScripts \cup {"function"} :
          eval_sync(th, k)
    \/ \E th \in HostThreads : DropFacade(th)
    \/ \E th \in Threads : ExeReturn(th)
    \/ WorkerTake
    \/ RunEval
    \/ RunConsume
    \/ RunDrain
    \/ Finish

SpecUnwind == Init /\ [][NextUnwind]_vars

\* the worker's steps on the evaluations and the cleanups
WorkerStepUnwind ==
    \/ WorkerTake
    \/ RunEval
    \/ RunConsume
    \/ RunDrain
    \/ Finish

FairSpecUnwind == SpecUnwind /\ WF_vars(WorkerStepUnwind)

\* ------------------------------------------------------------ two runtimes
\* what is left alone by the calls on the facades of several runtimes
oneRuntime == <<jobs, local_jobs, cur, phase, res, pending_jobs, contexts,
                waiting, sent, returned, next_id, executed, produced, dropped,
                inside, cache, next_obj, held, outcome, engine_access, alive,
                fired, conv, life>>

\* a table lookup: q_js_rt.with_cached_obj(id, ..) or consume_cached_obj(id)
\* on the worker of the runtime `at`, for a facade the runtime `of` produced
Lookup(op, f, at) == [op |-> op, of |-> f.rt, at |-> at, id |-> f.id]

\* rt.eval_sync of a script whose value is a function or a promise: the
\* closure converts the value with from_jsval on the runtime's own table
RtEvalSync(r, k) ==
    /\ rts.nexts[r] <= MaxJobs
    /\ LET c == from_jsval(ScriptValue(k), rts.tables[r], rts.nexts[r])
       IN rts' = [rts EXCEPT
                     !.tables[r] = c.table,
                     !.nexts[r] = c.next,
                     !.facades = @ \cup {[rt |-> r, id |-> c.facade.v,
                                          tag |-> c.facade.tag,
                                          from |-> c.facade.from]}]
    /\ UNCHANGED oneRuntime

\* CachedJSFunction::invoke_function_sync: the closure goes to the runtime of
\* the facade's own weak reference
RtInvoke(f) ==
    /\ f \in rts.facades
    /\ f.tag = "function"
    /\ rts' = [rts EXCEPT !.lookup = Lookup("invoke_function_sync", f, f.rt)]
    /\ UNCHANGED oneRuntime

\* Drop for CachedJSFunction: the cleanup goes to the runtime of the facade's
\* own weak reference
RtDrop(f) ==
    /\ f \in rts.facades
    /\ rts' = [rts EXCEPT
                  !.facades = @ \ {f},
                  !.tables[f.rt] = IF f.tag = "function"
                                   THEN QJS_consume_cached_obj(@, f.id)
                                   ELSE @,
                  !.lookup = IF f.tag = "function"
                             THEN Lookup("drop", f, f.rt)
                             ELSE @]
    /\ UNCHANGED oneRuntime

\* r.call_function_sync with the function facade f as an argument: the
\* closure runs on the worker of r and f.to_js_value(q_js_rt) looks the
\* facade's id up in the table of that worker's engine
RtCallWith(f, r) ==
    /\ f \in rts.facades
    /\ f.tag = "function"
    /\ rts' = [rts EXCEPT !.lookup = Lookup("to_js_value", f, r)]
    /\ UNCHANGED oneRuntime

\* await_promise_blocking(r, timeout) on the facade of a promise: the cached
\* promise would look its id up in the table of the runtime r it is given;
\* every other facade panics in the trait default
RtAwait(f, r) ==
    /\ f \in rts.facades
    /\ f.from \in PromiseKinds
    /\ rts' = IF await_dispatch(f) = "cached_promise"
              THEN [rts EXCEPT !.lookup = Lookup("await_promise_blocking", f, r)]
              ELSE [rts EXCEPT !.panic = "await_promise_blocking"]
    /\ UNCHANGED oneRuntime

\* add_promise_reactions(r, ..) on the facade of a promise, likewise
RtAddReactions(f, r) ==
    /\ f \in rts.facades
    /\ f.from \in PromiseKinds
    /\ rts' = IF reactions_dispatch(f) = "cached_promise"
              THEN [rts EXCEPT !.lookup = Lookup("add_promise_reactions", f, r)]
              ELSE [rts EXCEPT !.panic = "add_promise_reactions"]
    /\ UNCHANGED oneRuntime

\* the facades the runtimes can produce
RtFacades ==
    [rt : Runtimes, id : 0..(MaxJobs + 1), tag : {"function", "object"},
     from : {"function", "promise"}]

NextRuntimes ==
    \/ \E r \in Runtimes, k \in {"function", "promise"} : RtEvalSync(r, k)
    \/ \E f \in RtFacades : RtInvoke(f)
    \/ \E f \in RtFacades : RtDrop(f)
    \/ \E f \in RtFacades, r \in Runtimes : RtCallWith(f, r)
    \/ \E f \in RtFacades, r \in Runtimes : RtAwait(f, r)
    \/ \E f \in RtFacades, r \in Runtimes : RtAddReactions(f, r)

SpecRuntimes == Init /\ [][NextRuntimes]_vars

\* ------------------------------------------------------------ PromiseRef
\* a job of the engine's pending-job queue: the reaction it runs ("then",
\* "catch", or "other" for a job that is no reaction of the promise), whether
\* running it fails, and whether it enqueues a further job (a chained reaction)
EngineJobs ==
    [fn : {"then", "catch", "other"}, fails : BOOLEAN, chains : BOOLEAN]

\* the reactions a script registers on the promise before the call
Reactions ==
    {[fn |-> "then", fails |-> FALSE, chains |-> FALSE],
     [fn |-> "then", fails |-> TRUE, chains |-> FALSE],
     [fn |-> "catch", fails |-> FALSE, chains |-> TRUE]}

\* the jobs already pending when the call is made
PendingBefore ==
    UNION {[1..n -> {[fn |-> "other", fails |-> f, chains |-> FALSE] :
                        f \in BOOLEAN}] : n \in 0..MaxJobs}

\* the promises of new_promise: pending or settled before, with the reactions
\* registered on them
Promises ==
    [state : {"pending", "settled"}, reactions : SeqsOf(Reactions)]

\* the job a chaining job enqueues
Chained(j) == [fn |-> "other", fails |-> FALSE, chains |-> FALSE]

\* the engine's resolve and reject functions of the promise capability: a
\* pending promise is settled and a job is enqueued for each of its
\* reactions, in the order of their registration; a settled one is left alone
QJS_settle(prom, pj) ==
    IF prom.state = "pending" THEN pj \o prom.reactions ELSE pj

\* mutant: if q_js_rt.has_pending_jobs() { q_js_rt.run_pending_job()?; }
run_pending_jobs_once(pj, ran) ==
    IF pj = <<>> THEN [ok |-> TRUE, pj |-> pj, ran |-> ran]
    ELSE IF Head(pj).fails
         THEN [ok |-> FALSE, pj |-> Tail(pj), ran |-> Append(ran, Head(pj))]
         ELSE [ok |-> TRUE, pj |-> Tail(pj), ran |-> Append(ran, Head(pj))]

RECURSIVE run_pending_jobs(_, _)

\* while q_js_rt.has_pending_jobs() { q_js_rt.run_pending_job()?; }
\* (pj: the queue, ran: the jobs run so far)
run_pending_jobs(pj, ran) ==
    IF pj = <<>> THEN [ok |-> TRUE, pj |-> pj, ran |-> ran]
    ELSE IF Head(pj).fails
         THEN [ok |-> FALSE, pj |-> Tail(pj), ran |-> Append(ran, Head(pj))]
         ELSE run_pending_jobs(IF Head(pj).chains
                               THEN Append(Tail(pj), Chained(Head(pj)))
                               ELSE Tail(pj),
                               Append(ran, Head(pj)))

\* PromiseRef::resolve: the resolve function is called, then the pending
\* jobs are run until none is left or one fails
PromiseRef_resolve(prom, pj) == run_pending_jobs(QJS_settle(prom, pj), <<>>)

\* PromiseRef::reject: the same with the reject function
PromiseRef_reject(prom, pj) == run_pending_jobs(QJS_settle(prom, pj), <<>>)

\* a closure on the worker calls prom.resolve(q_js_rt, value)
Resolve ==
    /\ conv = NoConv
    /\ \E prom \in Promises, pj \in PendingBefore :
          conv' = [op |-> "resolve", in |-> [prom |-> prom, pj |-> pj],
                   out |-> PromiseRef_resolve(prom, pj)]
    /\ UNCHANGED convRest

\* a closure on the worker calls prom.reject(q_js_rt, value)
Reject ==
    /\ conv = NoConv
    /\ \E prom \in Promises, pj \in PendingBefore :
          conv' = [op |-> "reject", in |-> [prom |-> prom, pj |-> pj],
                   out |-> PromiseRef_reject(prom, pj)]
    /\ UNCHANGED convRest

NextPromise == Resolve \/ Reject

SpecPromise == Init /\ [][NextPromise]_vars

\* ------------------------------------------------------------------ contexts
\* the ids a host may pass to create_context and drop_context
AllCtxIds == {MainCtx, "ctx2", "ctx3"}

\* the names of the host functions
FuncNames == {"methodA"}

\* mutant: the hook is run on the contexts there are and then forgotten
QJS_add_context_init_hook_once(reg, h) ==
    [reg |-> [ctx |-> {NewContext(x.id, x.gen, x.funcs \cup {h}) : x \in reg.ctx},
              hooks |-> reg.hooks],
     res |-> [tag |-> "Ok", v |-> 0, from |-> "none"]]

\* QuickJsRuntime::add_context_init_hook: the hook is kept for the contexts
\* to come and run on every context there is
QJS_add_context_init_hook(reg, h) ==
    [reg |-> [ctx |-> {NewContext(x.id, x.gen, x.funcs \cup {h}) : x \in reg.ctx},
              hooks |-> reg.hooks \cup {h}],
     res |-> [tag |-> "Ok", v |-> 0, from |-> "none"]]

\* the host closure of tests::test_func: the product of two i32 arguments
methodA(args) ==
    IF Len(args) # 2 \/ ~Is("is_i32", args[1]) \/ ~Is("is_i32", args[2])
    THEN [ok |-> FALSE,
          facade |-> EsErr("i'd realy like 2 args of the int32 kind please")]
    ELSE [ok |-> TRUE,
          facade |-> EsI32(Get("get_i32", args[1]).v * Get("get_i32", args[2]).v)]

\* the function EsRuntime::set_function installs: the arguments are
\* converted to facades, the host closure is called and its result is
\* converted to an engine value
set_function_callback(jsargs, tbl, nx) ==
    LET args == from_jsval_array(jsargs, 1, <<>>, tbl, nx) IN
    IF ~args.ok THEN [ok |-> FALSE, err |-> args.facade]
    ELSE IF ~methodA(args.facade.items).ok
    THEN [ok |-> FALSE, err |-> methodA(args.facade.items).facade]
    ELSE [ok |-> TRUE,
          val |-> to_js_value(methodA(args.facade.items).facade, "fwd")]

\* the script of tests::test_func, "(nl.my.utils.methodA(13, 56));",
\* evaluated in the context x: the call of the installed function, or a
\* reference error
QJS_eval_call(x, name, tbl, nx) ==
    IF name \in x.funcs
    THEN set_function_callback(<<JsInt(13), JsInt(56)>>, tbl, nx)
    ELSE [ok |-> FALSE, err |-> EsErr("ReferenceError: not defined")]

\* EsRuntime::set_function: the closure handed to add_to_event_queue_sync
\* registers the function as a context init hook
set_function(th) ==
    /\ CanSubmit(th)
    /\ \E name \in FuncNames :
          exe_task(th, [b |-> "set_function", n |-> 0, arg |-> name, obj |-> 0])
    /\ UNCHANGED <<local_jobs, cur, phase, res, pending_jobs, contexts>>
    /\ UNCHANGED facadeVars

\* the closure of set_function
RunSetFunction ==
    /\ Running
    /\ cur.body = "set_function"
    /\ contexts' = QJS_add_context_init_hook(contexts, cur.arg).reg
    /\ AfterTask(local_jobs, QJS_add_context_init_hook(contexts, cur.arg).res)
    /\ engine_access' = engine_access \cup {Worker}
    /\ UNCHANGED <<cur, pending_jobs, waiting, sent, returned, next_id,
                   executed, dropped, cache, next_obj, held, outcome, alive,
                   fired, conv, life, rts>>

\* a host thread evaluates the calling script in the context c, with
\* eval_sync for the main context and with a closure handed to
\* add_to_event_queue_sync (q_js_rt.get_context(c).eval(..)) for the others
eval_call(th, c) ==
    /\ CanSubmit(th)
    /\ exe_task(th, [b |-> "call", n |-> 0, arg |-> c, obj |-> 0])
    /\ UNCHANGED <<local_jobs, cur, phase, res, pending_jobs, contexts>>
    /\ UNCHANGED facadeVars

\* the result of the closure of eval_call
call_closure(reg, c, tbl, nx) ==
    IF c \notin CtxIdsOf(reg) THEN EsErr("no such context")
    ELSE LET x == CHOOSE y \in reg.ctx : y.id = c
             r == QJS_eval_call(x, "methodA", tbl, nx)
         IN  IF r.ok THEN from_jsval(r.val, tbl, nx).facade ELSE r.err

\* the closure of eval_call
RunCall ==
    /\ Running
    /\ cur.body = "call"
    /\ AfterTask(local_jobs, call_closure(contexts, cur.arg, cache, next_obj))
    /\ engine_access' = engine_access \cup {Worker}
    /\ UNCHANGED <<cur, pending_jobs, contexts, waiting, sent, returned,
                   next_id, executed, dropped, cache, next_obj, held, outcome,
                   alive, fired, conv, life, rts>>

NextCtx ==
    \/ \E th \in HostThreads, c \in AllCtxIds : create_context(th, c)
    \/ \E th \in HostThreads, c \in AllCtxIds : drop_context(th, c)
    \/ \E th \in HostThreads : set_function(th)
    \/ \E th \in HostThreads, c \in AllCtxIds : eval_call(th, c)
    \/ \E th \in Threads : ExeReturn(th)
    \/ Teardown
    \/ WorkerTake
    \/ RunCreateContext
    \/ RunDropContext
    \/ RunSetFunction
    \/ RunCall
    \/ RunDrain
    \/ Finish

SpecCtx == Init /\ [][NextCtx]_vars

\* ------------------------------------------------------------------ claims
HostKinds == {"add_task", "exe_task", "async_task"}

Executed(i) == \E k \in 1..Len(executed) : executed[k].id = i

\* the worker has nothing left to do
Quiescent == phase = "idle" /\ jobs = <<>> /\ local_jobs = <<>>

\* C1: the task closures one host thread submitted, through any mix of
\* add_task, exe_task and async_task, are entered by the worker in the order
\* of their submission (ids are submission stamps)
C1_Fifo ==
    \A i, j \in 1..Len(executed) :
        (/\ i < j
         /\ executed[i].owner \in HostThreads
         /\ executed[i].owner = executed[j].owner)
            => executed[i].id < executed[j].id

\* two tasks of one host thread, submitted through different primitives,
\* have both run, with a task of another thread still in the queue
C1_Witness ==
    \E i, j \in 1..Len(executed) :
        /\ i < j
        /\ executed[i].owner \in HostThreads
        /\ executed[i].owner = executed[j].owner
        /\ executed[i].kind \in HostKinds
        /\ executed[j].kind \in HostKinds
        /\ executed[i].kind # executed[j].kind

\* C2: at most one task closure is being executed at any instant, whatever
\* the host threads submit (create_context and drop_context included)
C2_SingleWriter == inside <= 1

\* a closure is being executed while a create_context job of another thread
\* waits in the queue
C2_Witness ==
    /\ inside = 1
    /\ phase = "run"
    /\ \E k \in 1..Len(jobs) :
          jobs[k].kind = "create_context" /\ jobs[k].owner # cur.owner

\* C3: after the closure of an add_task, exe_task or async_task task returns,
\* its drain job runs before the worker takes the next job from the shared
\* list, and no engine job is pending when the worker takes a job from there
C3_DrainBeforeNext ==
    /\ (phase = "idle" /\ local_jobs = <<>>) => pending_jobs = <<>>
    /\ \A i, j \in 1..Len(executed) :
          (/\ i < j
           /\ executed[i].kind \in HostKinds
           /\ executed[j].src = "shared")
              => \E k \in (i + 1)..(j - 1) :
                    executed[k].kind = "drain" /\ executed[k].of = executed[i].id

\* a task that left a job pending, its drain, then a task of another thread
C3_Witness ==
    \E i \in 1..Len(executed) :
        /\ i + 2 <= Len(executed)
        /\ executed[i].kind \in HostKinds
        /\ executed[i].n > 0
        /\ executed[i + 1].kind = "drain"
        /\ executed[i + 2].src = "shared"
        /\ executed[i + 2].owner # executed[i].owner

\* C4 as claimed: every task the worker runs, whichever operation enqueued
\* it, is followed by its drain job before the next job of the shared list
C4_DrainAfterEveryTask ==
    \A i, j \in 1..Len(executed) :
        (/\ i < j
         /\ executed[i].kind # "drain"
         /\ executed[j].src = "shared")
            => \E k \in (i + 1)..(j - 1) :
                  executed[k].kind = "drain" /\ executed[k].of = executed[i].id

\* C5: every submitted task closure is executed exactly once: no closure is
\* entered twice, and when the worker has nothing left to do every task
\* submitted so far has been entered
C5_ExactlyOnce ==
    /\ \A i, j \in 1..Len(executed) :
          (i < j /\ executed[i].id # 0) => executed[i].id # executed[j].id
    /\ Quiescent => \A i \in 1..(next_id - 1) : Executed(i)

\* all three primitives were used and the worker has run everything
C5_Witness ==
    /\ Quiescent
    /\ \A kd \in HostKinds : \E k \in 1..Len(executed) : executed[k].kind = kd

\* C6: a blocking call returns only after the worker executed its closure,
\* and it returns the value that closure produced
C6_BlockingResult ==
    \A th \in HostThreads :
        returned[th].id # 0 => returned[th] \in produced

\* an exe_task call has returned its closure's value
C6_Witness ==
    \E th \in HostThreads :
        /\ returned[th].val.tag = "val"
        /\ waiting[th] = 0

\* C7: a task submitted through async_task whose future was dropped without
\* being polled is still executed: the worker eventually enters its closure,
\* unless the worker has blocked itself in a nested blocking submission; and
\* its result is discarded, never published
C7_DroppedFutureRuns ==
    /\ [](\A m \in sent : m.id \notin dropped)
    /\ \A i \in 1..MaxTasks :
          (i \in dropped) ~> (Executed(i) \/ waiting[Worker] # 0)

\* a task whose future was dropped has been executed
C7_Witness == \E i \in dropped : Executed(i) /\ Quiescent

\* C8: a blocking submission issued by a task that runs on the worker thread
\* deadlocks: the worker stays inside the call, the inner task is never
\* executed and the call never returns
C8_NestedBlockingDeadlocks ==
    /\ returned[Worker].id = 0
    /\ cur.body = "nested_done" =>
          /\ phase = "run"
          /\ waiting[Worker] # 0
          /\ ~Executed(waiting[Worker])
          /\ \A m \in sent : m.id # waiting[Worker]

\* the worker is blocked in a nested exe_task whose job is the only one queued
C8_Witness ==
    /\ cur.body = "nested_done"
    /\ waiting[Worker] # 0
    /\ Len(jobs) = 1
    /\ jobs[1].id = waiting[Worker]

\* C9: the engine, the context registry and the cached object table are only
\* touched by the worker thread: dropping a facade, the gc interval thread and
\* the calls of a host thread reach them through tasks only
C9_EngineOnWorker ==
    engine_access \subseteq {Worker}

\* a host thread dropped a function facade, whose table entry the worker
\* removed, and the collection the gc thread asked for has run
C9_Witness ==
    /\ cache = {}
    /\ next_obj > 1
    /\ \E k \in 1..Len(executed) : executed[k].owner = GcThread
    /\ \E k \in 1..Len(executed) : executed[k].n = 0 /\ executed[k].id \in dropped
    /\ engine_access = {Worker}

\* C10 as claimed: await_promise_blocking on the facade of a promise the
\* engine resolved returns Ok(Ok(v')), v' the converted resolution value
C10_AwaitDeliversResolution ==
    \A th \in HostThreads :
        (held[th].from = "promise" /\ outcome[th].op = "await_promise_blocking")
            => outcome[th].r = "Ok(Ok(v'))"

\* the host closure a reaction argument stands for
ReactionOf(a) == IF a = "then_err" THEN "then" ELSE a

\* the settlements a reaction is for
Matches(kind, a) ==
    \/ ReactionOf(a) = "then" /\ kind = "promise"
    \/ ReactionOf(a) = "catch" /\ kind = "promise_rejected"
    \/ ReactionOf(a) = "finally" /\ kind \in {"promise", "promise_rejected"}

\* how often the reactions invoked the closure th supplied as reaction a
FiredCount(th, a) ==
    Cardinality({k \in 1..Len(fired) :
                    fired[k].th = th /\ fired[k].reaction = ReactionOf(a)})

\* C11 as claimed: await_promise_blocking on the facade of a promise that
\* never settles returns the timeout outcome Err(RecvTimeoutError), which no
\* settled promise produces
C11_AwaitTimesOut ==
    \A th \in HostThreads :
        (held[th].from = "promise_pending"
            /\ outcome[th].op = "await_promise_blocking")
            => outcome[th].r = "Err(RecvTimeoutError)"

\* C12 as claimed: await_promise_blocking on the facade of a promise rejected
\* with r returns Ok(Err(r')): the failure arm, no timeout, no success
C12_AwaitDeliversRejection ==
    \A th \in HostThreads :
        (held[th].from = "promise_rejected"
            /\ outcome[th].op = "await_promise_blocking")
            => outcome[th].r = "Ok(Err(r'))"

\* C13 as claimed: add_promise_reactions registers the supplied closure, and
\* once the worker has nothing left to do the closure has been invoked exactly
\* once if the promise settled in the matching way and never otherwise
C13_ReactionsFireOnce ==
    \A th \in HostThreads :
        outcome[th].op = "add_promise_reactions"
            => /\ outcome[th].r = "Ok(())"
               /\ Quiescent =>
                     FiredCount(th, outcome[th].arg) =
                        IF Matches(held[th].from, outcome[th].arg) THEN 1 ELSE 0

\* C14 as claimed: a then closure that returns an error is invoked, the
\* reaction wrapper returns an engine null all the same, and the worker goes
\* on to finish its tasks
C14_ClosureErrorNotPropagated ==
    \A th \in HostThreads :
        (/\ outcome[th].op = "add_promise_reactions"
         /\ outcome[th].arg = "then_err"
         /\ held[th].from = "promise"
         /\ Quiescent)
            => \E k \in 1..Len(fired) :
                  /\ fired[k].th = th
                  /\ fired[k].closure = "Err"
                  /\ fired[k].wrapper = "null"

\* C15 as claimed: a reaction registered after the promise settled, by
\* add_promise_reactions or by await_promise_blocking, still fires exactly
\* once with the settlement value
C15_LateRegistrationFires ==
    \A th \in HostThreads :
        held[th].from \in {"promise", "promise_rejected"}
            => /\ outcome[th].op = "await_promise_blocking"
                     => outcome[th].r \in {"Ok(Ok(v'))", "Ok(Err(r'))"}
               /\ (/\ outcome[th].op = "add_promise_reactions"
                   /\ Matches(held[th].from, outcome[th].arg)
                   /\ Quiescent)
                     => /\ FiredCount(th, outcome[th].arg) = 1
                        /\ \A k \in 1..Len(fired) :
                              fired[k].th = th => fired[k].val = held[th].from

\* the table ids referenced by a facade: one a host thread holds, one on its
\* way from the worker to the caller of eval_sync, or one that moved into a
\* queued or running invoke closure as its argument
FacadeIds ==
    {held[th].v : th \in {t \in HostThreads : held[t].tag = "function"}}
        \cup {m.val.v : m \in {x \in sent : x.val.tag = "function"}}
        \cup (IF phase = "send" /\ res.tag = "function" THEN {res.v} ELSE {})
        \cup ({jobs[k].argobj : k \in 1..Len(jobs)} \ {0})
        \cup (IF phase = "run" THEN {cur.argobj} \ {0} ELSE {})

\* the worker is leaving the closure of an eval_sync whose script value is of
\* one of the given kinds
Surfaces(kinds) ==
    /\ phase = "run"
    /\ cur.body = "eval"
    /\ cur.arg \in kinds
    /\ phase' # "run"

\* C16 as claimed: surfacing a function or a promise adds exactly one entry
\* to the cached object table; while the runtime is alive nothing else changes
\* the table but the consume task of a dropped facade, which removes exactly
\* that facade's entry; and the entry of a dropped facade is eventually removed
C16_OneEntryPerHandle ==
    /\ [][/\ Surfaces({"function"} \cup PromiseKinds)
                => \E id \in 1..(MaxTasks + 1) :
                      id \notin cache /\ cache' = cache \cup {id}
          /\ (cache' # cache /\ alive')
                => \/ Surfaces({"function"} \cup PromiseKinds)
                   \/ /\ cur.body = "consume"
                      /\ cur.obj \in cache
                      /\ cur.obj \notin FacadeIds
                      /\ cache' = cache \ {cur.obj}]_vars
    /\ \A id \in 1..(MaxTasks + 1) :
          (id \in cache /\ id \notin FacadeIds) ~> (id \notin cache)

\* the part of C16 about functions alone
C16_FunctionsOnly ==
    /\ [][/\ Surfaces({"function"})
                => \E id \in 1..(MaxTasks + 1) :
                      id \notin cache /\ cache' = cache \cup {id}
          /\ (cache' # cache /\ alive')
                => \/ Surfaces({"function"})
                   \/ /\ cur.body = "consume"
                      /\ cur.obj \in cache
                      /\ cur.obj \notin FacadeIds
                      /\ cache' = cache \ {cur.obj}]_vars
    /\ \A id \in 1..(MaxTasks + 1) :
          (id \in cache /\ id \notin FacadeIds) ~> (id \notin cache)

\* C17: dropping a facade after the runtime has been torn down is a no-op:
\* no task is submitted, nothing panics, nothing but the facade itself changes
C17_DropAfterTeardownNoOp ==
    [][(~alive /\ held' # held)
          => UNCHANGED <<jobs, local_jobs, cur, phase, res, pending_jobs,
                         contexts, waiting, sent, returned, next_id, executed,
                         produced, dropped, inside, cache, next_obj, outcome,
                         engine_access, alive, fired, conv, life, rts>>]_vars

\* a function was surfaced and its facade dropped without any cleanup task
\* ever being submitted: the drop came after the teardown
C17_Witness ==
    /\ ~alive
    /\ next_obj > 1
    /\ dropped = {}
    /\ \A th \in HostThreads : held[th] = Unit

\* C18: no two live entries of the cached object table share an id: the id
\* cache_object returns is not the id of an entry still in the table, and no
\* two facades reference the same entry
C18_NoAliasedIds ==
    /\ [](\A t1, t2 \in HostThreads :
            (/\ t1 # t2
             /\ held[t1].tag = "function"
             /\ held[t2].tag = "function") => held[t1].v # held[t2].v)
    /\ [][next_obj' # next_obj
            => \E id \in 1..(MaxTasks + 1) :
                  id \notin cache /\ cache' = cache \cup {id}]_vars

\* a function is registered while the cleanup of an earlier one is queued and
\* another facade is live
C18_Witness ==
    /\ Cardinality(cache) = 2
    /\ \E th \in HostThreads : held[th].tag = "function"
    /\ \E k \in 1..Len(jobs) : jobs[k].body = "consume"

\* C19: while a function facade is live and its runtime alive, its id is in
\* the cached object table, and every invoke task finds its entry: no queued
\* or running invoke task names a function or an argument whose id is not in
\* the table
C19_LiveFacadeHasEntry ==
    /\ alive => FacadeIds \subseteq cache
    /\ \A k \in 1..Len(jobs) :
          jobs[k].body = "invoke"
             => /\ jobs[k].obj \in cache
                /\ jobs[k].argobj # 0 => jobs[k].argobj \in cache
    /\ (phase = "run" /\ cur.body = "invoke")
          => /\ cur.obj \in cache
             /\ cur.argobj # 0 => cur.argobj \in cache

\* the worker runs an invoke_function task, with a facade as argument, of a
\* facade that has been dropped in the meantime, its cleanup task queued behind
C19_Witness ==
    /\ phase = "run"
    /\ cur.body = "invoke"
    /\ cur.kind = "async_task"
    /\ cur.obj \in cache
    /\ cur.obj \notin FacadeIds
    /\ cur.argobj \in cache
    /\ \E k \in 1..Len(jobs) : jobs[k].body = "consume" /\ jobs[k].obj = cur.obj

\* C20: after the teardown invoke_function and invoke_function_sync return
\* the error "rt was dropped": no task is submitted (the queue stays empty, no
\* caller blocks) and nothing panics
C20_InvokeAfterTeardown ==
    /\ [](~alive => (jobs = <<>> /\ \A th \in Threads : waiting[th] = 0))
    /\ [][(~alive /\ outcome' # outcome)
            => \A th \in HostThreads :
                  outcome'[th] # outcome[th]
                     => /\ outcome'[th].op \in {"invoke_function",
                                                "invoke_function_sync"}
                        /\ outcome'[th].r = "Err: rt was dropped"]_vars

\* both calls have returned the error after the teardown
C20_Witness ==
    /\ ~alive
    /\ \E t1, t2 \in HostThreads :
          /\ outcome[t1] = [op |-> "invoke_function_sync",
                            r |-> "Err: rt was dropped", arg |-> "none"]
          /\ outcome[t2] = [op |-> "invoke_function",
                            r |-> "Err: rt was dropped", arg |-> "none"]

\* the host may drop the runtime: no call is in progress
MayDropRuntime ==
    /\ alive
    /\ phase = "idle"
    /\ \A th \in Threads : waiting[th] = 0

\* C21: neither a live facade nor what the promise bridge installs in the
\* engine (the transmitter of await_promise_blocking, the then and catch
\* wrappers of add_promise_reactions) holds a strong reference to the
\* runtime: whenever the host may drop the runtime it can be torn down,
\* whatever facades are still held
C21_NoStrongReference ==
    /\ facade_rt_ref = "weak"
    /\ transmitter_rt_ref = "weak"
    /\ reaction_rt_ref = "weak"
    /\ MayDropRuntime => ENABLED Teardown

\* C21 for the facades alone: a held facade never prevents the teardown
C21_FacadeIsWeak ==
    /\ facade_rt_ref = "weak"
    /\ MayDropRuntime => ENABLED Teardown

\* the conversion recorded is from_jsval applied to a script value
Converted == conv.op = "from_jsval"

\* C22: from_jsval on a promise registers it in the cached object table and
\* returns a cached promise facade, not a map; a function becomes a cached
\* function facade, an array an array facade and every other object that is
\* not a date a map facade
C22_PromiseBecomesCachedPromise ==
    Converted =>
       /\ conv.in.kind = "promise" =>
             /\ conv.out.ok
             /\ conv.out.facade.tag = "promise"
             /\ conv.out.facade.v \in conv.out.table
       /\ conv.in.kind = "function" =>
             /\ conv.out.ok
             /\ conv.out.facade.tag = "function"
             /\ conv.out.facade.v \in conv.out.table
       /\ (conv.in.kind = "array" /\ conv.out.ok) =>
             /\ conv.out.facade.tag = "array"
             /\ Len(conv.out.facade.items) = Len(conv.in.items)
       /\ (conv.in.kind = "object" /\ conv.out.ok) =>
             /\ conv.out.facade.tag = "object"
             /\ DOMAIN conv.out.facade.props
                   = {conv.in.props[k].key : k \in 1..Len(conv.in.props)}

\* C22 without the promise: functions, arrays and other objects convert as
\* stated
C22_OtherObjects ==
    Converted =>
       /\ conv.in.kind = "function" =>
             /\ conv.out.ok
             /\ conv.out.facade.tag = "function"
             /\ conv.out.facade.v \in conv.out.table
       /\ (conv.in.kind = "array" /\ conv.out.ok) =>
             /\ conv.out.facade.tag = "array"
             /\ Len(conv.out.facade.items) = Len(conv.in.items)
       /\ (conv.in.kind = "object" /\ conv.out.ok) =>
             /\ conv.out.facade.tag = "object"
             /\ DOMAIN conv.out.facade.props
                   = {conv.in.props[k].key : k \in 1..Len(conv.in.props)}

\* the engine value is of one of the kinds, or has such a value in it
RECURSIVE Contains(_, _)
Contains(jsv, kinds) ==
    \/ jsv.kind \in kinds
    \/ /\ jsv.kind = "array"
       /\ \E k \in 1..Len(jsv.items) : Contains(jsv.items[k], kinds)
    \/ /\ jsv.kind = "object"
       /\ \E k \in 1..Len(jsv.props) : Contains(jsv.props[k].val, kinds)

\* C23: from_jsval on a date or a big integer, at the top or nested in an
\* array or an object at any depth, returns an error to its caller and no
\* facade
C23_DateAndBigIntRefused ==
    (Converted /\ Contains(conv.in, {"date", "big_int"})) =>
       /\ ~conv.out.ok
       /\ conv.out.facade.tag = "Err"
       /\ conv.out.facade.msg \in {"dates are currently not supported",
                                   "BigInts are currently not supported"}

\* a date two levels down has been refused, and so has a big integer
C23_Witness ==
    /\ Converted
    /\ conv.in.kind = "array"
    /\ Len(conv.in.items) = 2
    /\ conv.in.items[1].kind = "int"
    /\ conv.in.items[2].kind = "object"
    /\ Contains(conv.in.items[2], {"date"})
    /\ conv.out.facade.msg = "dates are currently not supported"

\* C24: for a facade of Null, Undefined, Bool, Int32 or String, and for the
\* arrays and string-keyed maps of such values, converting it to an engine
\* value and converting that back gives a facade equal to it
C24_RoundTrip ==
    (conv.op = "round_trip" /\ conv.in.tag # "f64") =>
       /\ conv.out.ok
       /\ conv.out.facade = conv.in

\* a map of an array and a string, set in the reverse order of its keys, has
\* come back as it was
C24_Witness ==
    /\ conv.op = "round_trip"
    /\ conv.in.tag = "object"
    /\ DOMAIN conv.in.props = Keys
    /\ conv.in.props["k1"].tag = "array"
    /\ Len(conv.in.props["k1"].items) = 2
    /\ conv.in.props["k1"].items[1].tag = "null"
    /\ conv.in.props["k1"].items[2].tag = "i32"
    /\ conv.in.props["k2"].tag = "string"
    /\ conv.js.props[1].key = "k2"
    /\ conv.out.facade = conv.in

\* the predicate and the getter that belong to the variant of a facade
PredicateOf(f) ==
    CASE f.tag = "null" -> "is_null"
      [] f.tag = "undefined" -> "is_undefined"
      [] f.tag = "bool" -> "is_bool"
      [] f.tag = "string" -> "is_str"
      [] f.tag = "i32" -> "is_i32"
      [] f.tag = "f64" -> "is_f64"
      [] f.tag = "function" -> "is_function"
      [] f.tag = "promise" -> "is_promise"
      [] f.tag = "object" -> "is_object"
      [] f.tag = "array" -> "is_array"

GetterOf(f) ==
    CASE f.tag = "bool" -> "get_bool"
      [] f.tag = "string" -> "get_str"
      [] f.tag = "i32" -> "get_i32"
      [] f.tag = "f64" -> "get_f64"
      [] f.tag = "object" -> "get_object"
      [] f.tag = "array" -> "get_array"
      [] OTHER -> "none"

\* a facade has come out of a conversion
HasFacade == conv.op \in {"from_jsval", "round_trip"} /\ conv.out.ok

\* the getters return the value of the matching variant and panic otherwise
GettersMatch(f) ==
    \A g \in Getters :
       IF g = GetterOf(f) THEN Get(g, f).r = "value"
       ELSE Get(g, f).r = "panic"

\* C25: for a facade of any variant exactly the is_* predicate of its variant
\* is true and all the others are false; a typed getter returns the value
\* when the variant matches and panics otherwise
C25_PredicatesMatchVariant ==
    HasFacade =>
       /\ \A p \in Predicates :
             Is(p, conv.out.facade) <=> (p = PredicateOf(conv.out.facade))
       /\ GettersMatch(conv.out.facade)

\* C25 but for Null and Undefined: at most the predicate of the variant is
\* true, and it is true of every other variant
C25_ExceptNullAndUndefined ==
    HasFacade =>
       /\ \A p \in Predicates :
             Is(p, conv.out.facade) <=>
                /\ p = PredicateOf(conv.out.facade)
                /\ p \notin {"is_null", "is_undefined"}
       /\ GettersMatch(conv.out.facade)

\* the worker leaves the closure of a create_context (drop_context) task
CreateStep == phase = "run" /\ cur.body = "create_context" /\ phase' # "run"

DropStep == phase = "run" /\ cur.body = "drop_context" /\ phase' # "run"

\* C26: create_context(id) returns an error when a context with that id
\* exists and leaves the registry unchanged; the registry never holds two
\* contexts with one id
C26_CreateExistingFails ==
    /\ [](\A x, y \in contexts.ctx : x.id = y.id => x = y)
    /\ [][(CreateStep /\ cur.arg \in CtxIdsOf(contexts))
             => (contexts' = contexts /\ res'.tag = "Err")]_vars
    /\ [](\A th \in HostThreads, k \in DOMAIN executed :
             (/\ executed[k].kind = "create_context"
              /\ executed[k].id = returned[th].id
              /\ \E j \in 1..(k - 1) :
                    /\ executed[j].kind = "create_context"
                    /\ executed[j].arg = executed[k].arg
              /\ \A j \in 1..k : executed[j].kind # "drop_context")
                => returned[th].val.tag = "Err")

\* a second create_context of one id has returned its error to the caller
\* and the context of the first is still the one registered
C26_Witness ==
    \E th \in HostThreads, k \in DOMAIN executed :
       /\ executed[k].kind = "create_context"
       /\ executed[k].arg = "ctx2"
       /\ executed[k].id = returned[th].id
       /\ returned[th].val.tag = "Err"
       /\ \E x \in contexts.ctx : x.id = "ctx2" /\ x.gen # executed[k].id

\* C27: drop_context(id) removes the named context when it exists; when no
\* context has that id it returns normally and leaves the registry
\* unchanged
C27_DropContext ==
    /\ [][(DropStep /\ cur.arg # MainCtx)
             => /\ cur.arg \notin CtxIdsOf(contexts')
                /\ res' = Unit
                /\ \A x \in contexts.ctx : x.id # cur.arg => x \in contexts'.ctx
                /\ contexts'.ctx \subseteq contexts.ctx]_vars
    /\ [][(DropStep /\ cur.arg \notin CtxIdsOf(contexts))
             => (contexts' = contexts /\ res' = Unit)]_vars
    /\ [](\A th \in HostThreads, k \in DOMAIN executed :
             (executed[k].kind = "drop_context"
                 /\ executed[k].id = returned[th].id)
                => returned[th].val = Unit)

\* a context has been created and dropped, and a second drop of its id, which
\* is no longer registered, has returned to its caller
C27_Witness ==
    \E th \in HostThreads, j, k, l \in DOMAIN executed :
       /\ j < k /\ k < l
       /\ executed[j].kind = "create_context"
       /\ executed[j].arg = "ctx2"
       /\ executed[k].kind = "drop_context"
       /\ executed[k].arg = "ctx2"
       /\ executed[l].kind = "drop_context"
       /\ executed[l].arg = "ctx2"
       /\ executed[l].id = returned[th].id
       /\ returned[th].val = Unit
       /\ contexts = NewRegistry

\* C28: the main context exists from the construction of the runtime until
\* its teardown: no create_context or drop_context with any id removes or
\* replaces it
C28_MainContextStays ==
    alive => NewContext(MainCtx, 0, contexts.hooks) \in contexts.ctx

\* a drop_context and a create_context of the main context's id have both
\* been run
C28_Witness ==
    /\ alive
    /\ \E j, k \in DOMAIN executed :
          /\ executed[j].kind = "drop_context"
          /\ executed[j].arg = MainCtx
          /\ executed[k].kind = "create_context"
          /\ executed[k].arg = MainCtx
    /\ phase = "idle"

\* the position in the log of a set_function task that returned Ok, if any
SetFunctionAt(k, name) ==
    /\ k \in DOMAIN executed
    /\ executed[k].kind = "exe_task"
    /\ executed[k].arg = name
    /\ \E p \in produced : p.id = executed[k].id /\ p.val.tag = "Ok"

\* the log entries of the closures of eval_call
IsCall(k) == executed[k].kind = "exe_task" /\ executed[k].arg \in AllCtxIds

\* C29: after set_function(namespace, name, f) has returned Ok the function
\* is callable in the main context, in every other context there was and in
\* every context created afterwards, and a script calling methodA(13, 56)
\* receives 728
C29_SetFunctionEverywhere ==
    \A k \in DOMAIN executed :
       SetFunctionAt(k, "methodA") =>
          /\ \A x \in contexts.ctx : "methodA" \in x.funcs
          /\ \A l \in DOMAIN executed, p \in produced :
                (l > k /\ IsCall(l) /\ p.id = executed[l].id) =>
                   \/ p.val = EsI32(728)
                   \/ p.val = EsErr("no such context")

\* the function has been called in a context created after set_function
\* returned, and the script has received 728
C29_Witness ==
    \E k, j, l \in DOMAIN executed :
       /\ SetFunctionAt(k, "methodA")
       /\ k < j /\ j < l
       /\ executed[j].kind = "create_context"
       /\ executed[j].arg = "ctx3"
       /\ IsCall(l)
       /\ executed[l].arg = "ctx3"
       /\ \E th \in HostThreads :
             /\ returned[th].id = executed[l].id
             /\ returned[th].val = EsI32(728)

\* the function has been called in a context created before set_function
C29_WitnessBefore ==
    \E k, j, l \in DOMAIN executed :
       /\ SetFunctionAt(k, "methodA")
       /\ j < k /\ k < l
       /\ executed[j].kind = "create_context"
       /\ executed[j].arg = "ctx2"
       /\ IsCall(l)
       /\ executed[l].arg = "ctx2"
       /\ \E th \in HostThreads :
             /\ returned[th].id = executed[l].id
             /\ returned[th].val = EsI32(728)

\* the worker leaves the closure of an eval task
EvalAsyncStep == phase = "run" /\ cur.body = "eval_async" /\ phase' # "run"

\* the log entries of the evaluations
IsEval(k) ==
    \/ executed[k].kind = "exe_task"
    \/ executed[k].kind = "async_task"

\* C30: eval_sync(s) and awaiting eval(s) are equivalent: from the same
\* engine state the closure of eval produces the result (the Ok facade or
\* the error) and the engine state the closure of eval_sync produces, and
\* either caller receives what its closure produced
C30_EvalEquivalent ==
    /\ [][EvalAsyncStep =>
             /\ res' = eval_sync_closure(cur.arg, cache, next_obj).facade
             /\ cache' = eval_sync_closure(cur.arg, cache, next_obj).table
             /\ next_obj' = eval_sync_closure(cur.arg, cache, next_obj).next
             /\ contexts' = contexts
             /\ pending_jobs' = pending_jobs
             /\ local_jobs' = EQ_add_task_from_worker(local_jobs, DrainTask(cur))
             /\ jobs' = jobs]_vars
    /\ [](\A th \in HostThreads, k \in DOMAIN executed, p \in produced :
             (IsEval(k) /\ executed[k].id = returned[th].id
                 /\ p.id = returned[th].id)
                => returned[th].val = p.val)

\* one caller has awaited eval and the other has called eval_sync on the
\* script of a function, and each holds a function facade of its own
C30_Witness ==
    \E t1, t2 \in HostThreads, j, k \in DOMAIN executed :
       /\ executed[j].kind = "async_task"
       /\ executed[j].arg = "function"
       /\ executed[j].id = returned[t1].id
       /\ executed[k].kind = "exe_task"
       /\ executed[k].arg = "function"
       /\ executed[k].id = returned[t2].id
       /\ held[t1].tag = "function"
       /\ held[t2].tag = "function"
       /\ held[t1].v # held[t2].v

\* the gc interval thread has submitted a task in this step
GcSubmits == waiting[GcThread] = 0 /\ waiting'[GcThread] # 0

\* C31: the gc interval thread holds a strong reference only while it is
\* inside gc_sync and it terminates: once nobody holds a strong reference to
\* the runtime the thread submits no gc task any more, it leaves its loop at
\* its next wake-up, and after it has left the loop it submits nothing
C31_GcThreadTerminates ==
    /\ [][GcSubmits => (RtHeld /\ life.gc = "loop")]_vars
    /\ [](life.gc = "exited" => ~RtHeld)
    /\ (~RtHeld) ~> (life.gc = "exited")

\* the gc thread has collected at least once before the host dropped the
\* runtime, and it has left its loop
C31_Witness ==
    /\ life.gc = "exited"
    /\ \E e \in 1..Len(executed) : executed[e].owner = GcThread

\* the tasks that were submitted and whose closure the worker never entered
Abandoned == {i \in 1..(next_id - 1) : ~Executed(i)}

FailingArgs(args) == {k \in 1..Len(args) : ~as_js_value(args[k]).ok}

\* the first argument whose conversion fails
FirstFailing(args) ==
    CHOOSE k \in FailingArgs(args) : \A j \in FailingArgs(args) : k <= j

\* the engine values of an argument list, all converted
AllConverted(args) == [k \in 1..Len(args) |-> as_js_value(args[k]).val]

\* the results of task i: what its closure returned and what its caller got
ResultsOf(i) ==
    {p.val : p \in {q \in produced : q.id = i}}
       \cup {returned[th].val : th \in {t \in HostThreads : returned[t].id = i}}

\* the tasks whose script throws or does not compile
Throwing == {executed[e].id : e \in {x \in 1..Len(executed) :
                                        executed[x].arg
                                           \in {"throw", "module_throw"}}}

\* C33: on the synchronous paths an error reaches the caller as a result
\* value: call_function_sync and invoke_function_sync return the error of the
\* first argument that does not convert and do not invoke the function (with
\* arguments that all convert the function is invoked once, with all of them);
\* eval_sync and eval_module_sync return the engine's error; nobody panics
C33_SyncErrorsAreValues ==
    /\ \A th \in HostThreads : ~Panicked(th)
    /\ (conv.op \in {"call_function_sync", "invoke_function_sync"} /\ conv.done)
          => IF FailingArgs(conv.in) # {}
             THEN /\ conv.called = <<>>
                  /\ ResultsOf(conv.id)
                        \subseteq {EsErr(conv.in[FirstFailing(conv.in)].s)}
             ELSE /\ conv.called = <<AllConverted(conv.in)>>
                  /\ \A r \in ResultsOf(conv.id) : r.tag = "i32"
    /\ \A i \in Throwing :
          ResultsOf(i) \subseteq {EsErr("script failed"), EsErr("module failed")}

\* invoke_function_sync has returned the error of its second argument, the
\* first one that does not convert
C33_Witness ==
    /\ conv.op = "invoke_function_sync"
    /\ conv.in = <<EsI32(7), EsString("bad1")>>
    /\ \E th \in HostThreads :
          /\ returned[th].id = conv.id
          /\ returned[th].val = EsErr("bad1")

\* the asynchronous call has returned to its caller
AsyncCallDone == conv.op = "call_function" /\ conv.done

\* C35 as claimed: the asynchronous call_function invokes the function with
\* exactly the supplied arguments, in their order and number, or not at all,
\* and it invokes it exactly when call_function_sync would
C35_AllOrNothing ==
    AsyncCallDone
       => /\ IF FailingArgs(conv.in) # {}
             THEN conv.called = <<>>
             ELSE conv.called = <<AllConverted(conv.in)>>
          /\ conv.called
                = call_function_sync_closure(conv.in, cache, next_obj).called

\* what the code does: the arguments that do not convert are left out and
\* the function is always invoked, with those that are left
C35_FailedArgsAreSkipped ==
    AsyncCallDone
       => /\ Len(conv.called) = 1
          /\ conv.called[1]
                = [k \in 1..(Len(conv.in) - Cardinality(FailingArgs(conv.in))) |->
                     AllConverted(SelectSeq(conv.in,
                                            LAMBDA f : as_js_value(f).ok))[k]]

\* the tasks of the asynchronous eval_module
ModuleAsync == {executed[e].id : e \in {x \in 1..Len(executed) :
                                           /\ executed[x].kind = "async_task"
                                           /\ executed[x].arg \in ModuleScripts}}

\* the evaluations that were submitted
Evaluations == {i \in 1..(next_id - 1) :
                  \/ \E k \in 1..Len(jobs) : jobs[k].id = i /\ jobs[k].kind # "drain"
                  \/ Executed(i)}

\* the worker goes on after a failure: it has not stopped or panicked, the
\* tasks are entered in the order of their submission, every task submitted
\* is eventually entered, and an evaluation that does not throw gives its
\* value whatever failed before it
WorkerGoesOn ==
    /\ [](phase \in {"idle", "run", "send"})
    /\ [](\A th \in HostThreads : ~Panicked(th))
    /\ [](\A a, b \in 1..Len(executed) :
            (a < b /\ executed[a].kind # "drain" /\ executed[b].kind # "drain")
               => executed[a].id < executed[b].id)
    /\ \A i \in 1..MaxTasks : (i \in Evaluations) ~> Executed(i)
    /\ [](\A i \in Evaluations \ (Throwing \cup ModuleAsync) :
            \A r \in ResultsOf(i) : r.tag = "i32")

\* C34: the failure of a script is an error value and nothing more: eval,
\* eval_sync and eval_module_sync hand the error to their caller, the
\* asynchronous eval_module logs it and returns (); the worker does not stop,
\* the later tasks are entered in order and an evaluation that does not throw
\* still gives its value
C34_FailureIsErrorValue ==
    /\ [](\A i \in Throwing \ ModuleAsync :
            ResultsOf(i) \subseteq {EsErr("script failed"), EsErr("module failed")})
    /\ [](\A i \in ModuleAsync : ResultsOf(i) \subseteq {Unit})
    /\ WorkerGoesOn

\* an evaluation that threw has returned its error and a later one, entered
\* after it, has returned its value
C34_Witness ==
    \E t1, t2 \in HostThreads :
       /\ returned[t1].val = EsErr("script failed")
       /\ returned[t2].val.tag = "i32"
       /\ returned[t1].id < returned[t2].id

\* the worker is leaving the closure of an eval_sync whose conversion fails
FailedConversion ==
    /\ phase = "run"
    /\ cur.body = "eval"
    /\ cur.arg \in FailingScripts
    /\ phase' # "run"

\* the table entries the queued cleanups are going to consume
ToBeConsumed ==
    {jobs[k].obj : k \in {x \in 1..Len(jobs) : jobs[x].body = "consume"}}
       \cup (IF phase = "run" /\ cur.body = "consume" THEN {cur.obj} ELSE {})

\* C36: when from_jsval fails part-way through an array or an object, a
\* cleanup is queued for every entry the conversion had registered, the
\* entries without a facade are eventually consumed, and once the worker has
\* nothing left to do the table holds the entries of the facades and no other
C36_FailedConversionCleansUp ==
    /\ [][FailedConversion
            => /\ cache' # cache
               /\ ToBeConsumed' = ToBeConsumed \cup (cache' \ cache)]_vars
    /\ [](cache \ FacadeIds \subseteq ToBeConsumed)
    /\ (cache \ FacadeIds # {}) ~> (cache \subseteq FacadeIds)
    /\ [](Quiescent => cache = FacadeIds)

\* an array holding two functions and a big integer was refused and the
\* cleanups have run: the table is as it was before, empty
C36_Witness ==
    /\ \E th \in HostThreads :
          returned[th].val = EsErr("BigInts are currently not supported")
    /\ next_obj = 3
    /\ cache = {}
    /\ Quiescent

\* C38 as claimed: every operation on a cached facade looks the facade's id
\* up in the table of the runtime that produced it
C38_OwnRuntimeOnly == rts.lookup.at = rts.lookup.of

\* what holds: the methods that go through the facade's own weak reference,
\* invoke_function_sync and the drop handler, stay with their runtime, and
\* the two promise methods look nothing up, since every call panics
C38_OwnReferenceOnly ==
    /\ rts.lookup.op \in {"invoke_function_sync", "drop"}
          => rts.lookup.at = rts.lookup.of
    /\ rts.lookup.op \notin {"await_promise_blocking", "add_promise_reactions"}

DrainQueued(i) ==
    \E k \in 1..Len(local_jobs) :
       local_jobs[k].kind = "drain" /\ local_jobs[k].of = i

\* the worker has entered the drain job of task i
DrainExecuted(i) ==
    \E k \in 1..Len(executed) : executed[k].kind = "drain" /\ executed[k].of = i

\* the blocking submissions whose closure the worker has entered
Blocking ==
    {executed[k].id : k \in {x \in 1..Len(executed) :
                                executed[x].kind = "exe_task"}}

\* C39: the drain job of a blocking submission is in the worker's own list
\* before the result is published, so it is queued or done whenever the
\* result is on its way or with the caller, and every task the caller submits
\* after the call returned is entered after that drain job
C39_DrainBeforePublication ==
    /\ (phase = "send" /\ cur.kind = "exe_task") => DrainQueued(cur.id)
    /\ \A m \in sent :
          m.id \in Blocking => (DrainQueued(m.id) \/ DrainExecuted(m.id))
    /\ \A th \in HostThreads :
          returned[th].id \in Blocking
             => (DrainQueued(returned[th].id) \/ DrainExecuted(returned[th].id))
    /\ \A a, b \in 1..Len(executed) :
          (/\ a < b
           /\ executed[a].kind = "exe_task"
           /\ executed[a].owner \in HostThreads
           /\ executed[b].owner = executed[a].owner
           /\ executed[b].kind # "drain")
              => \E d \in (a + 1)..(b - 1) :
                    executed[d].kind = "drain" /\ executed[d].of = executed[a].id

\* a blocking task left a job pending, and the next task of its caller was
\* entered after the drain job
C39_Witness ==
    \E a, b \in 1..Len(executed) :
       /\ a < b
       /\ executed[a].kind = "exe_task"
       /\ executed[a].n > 0
       /\ executed[b].owner = executed[a].owner
       /\ executed[b].kind # "drain"
       /\ returned[executed[a].owner].id = executed[a].id
             \/ returned[executed[a].owner].id = executed[b].id

\* PromiseRef.resolve or PromiseRef.reject has returned
Settled == conv.op \in {"resolve", "reject"}

\* the jobs the call found or enqueued: those pending before and one for
\* each reaction registered on the promise, if it was pending
JobsOfCall == QJS_settle(conv.in.prom, conv.in.pj)

\* C40: when PromiseRef.resolve or PromiseRef.reject returns Ok the engine's
\* pending-job queue is empty and every reaction registered on the promise
\* before the call has run; when a pending job fails the call returns the
\* error and runs no further job: the jobs behind the failed one stay queued
C40_ResolveDrains ==
    Settled =>
       /\ conv.out.ok
             => /\ conv.out.pj = <<>>
                /\ \A k \in 1..Len(JobsOfCall) :
                      k <= Len(conv.out.ran) /\ conv.out.ran[k] = JobsOfCall[k]
                /\ \A k \in 1..Len(conv.out.ran) : ~conv.out.ran[k].fails
       /\ ~conv.out.ok
             => /\ conv.out.ran # <<>>
                /\ conv.out.ran[Len(conv.out.ran)].fails
                /\ \A k \in 1..(Len(conv.out.ran) - 1) : ~conv.out.ran[k].fails
                /\ \E k \in 1..Len(JobsOfCall) :
                      /\ JobsOfCall[k].fails
                      /\ \A j \in 1..(k - 1) : ~JobsOfCall[j].fails
                      /\ Len(conv.out.pj) >= Len(JobsOfCall) - k
                      /\ \A j \in 1..(Len(JobsOfCall) - k) :
                            conv.out.pj[j] = JobsOfCall[k + j]

\* resolve returned Ok on a pending promise with two reactions, one of which
\* chained a further job, behind a job that was pending before
C40_Witness ==
    /\ conv.op = "resolve"
    /\ conv.out.ok
    /\ conv.in.prom.state = "pending"
    /\ Len(conv.in.prom.reactions) = 2
    /\ conv.in.pj # <<>>
    /\ Len(conv.out.ran) = 4

====
